---- MODULE Spec2Model ----
(***************************************************************************)
(* Model of the deterministic core of krhebbar/ai-scheduling-agent:        *)
(*   SlotRecommender   (src/src/intelligence/slotRecommender.ts)           *)
(*   ConflictResolver  (src/unnamed/part_007, lines 55-443)                *)
(*   PreferenceEngine  (src/unnamed/part_007, lines 466-751)               *)
(*                                                                         *)
(* Numbers.  JavaScript numbers are modelled as exact rationals            *)
(* [n |-> numerator, d |-> denominator] in lowest terms with d >= 0.       *)
(* d = 0 encodes the non-finite values a division by zero produces:        *)
(* n = 1 is +Infinity, n = -1 is -Infinity, n = 0 is NaN.  Comparisons     *)
(* follow IEEE-754: every comparison with NaN is false.  Rounding of       *)
(* finite doubles is not modelled.                                         *)
(*                                                                         *)
(* Time.  A timestamp is an integer number of hours since a Sunday         *)
(* 00:00; Date.getDay and Date.getHours are computed from it.              *)
(***************************************************************************)
EXTENDS Integers, Sequences, FiniteSets, TLC

----------------------------------------------------------------------------
(* Bounds of the model *)

\* longest list of candidate slots handed to recommend
MaxSlots == 2
\* largest topN handed to recommend
MaxTopN == 2
\* longest list of conflicts handed to resolve
MaxConflicts == 2
\* longest pool of alternative slots
MaxPool == 2
\* longest existing schedule handed to detectConflicts
MaxSchedule == 2
\* longest history handed to learnPreferences
MaxHistory == 21
\* the wall clock advances at most this many days
MaxDays == 1

----------------------------------------------------------------------------
(* JavaScript numbers *)

\* An optional value is a sequence of length 0 (undefined) or 1
Undefined == <<>>

Some(v) == <<v>>

Val(o) == o[1]

Abs(i) == IF i < 0 THEN -i ELSE i

Sign(i) == IF i < 0 THEN -1 ELSE IF i > 0 THEN 1 ELSE 0

RECURSIVE Gcd(_, _)
Gcd(a, b) == IF b = 0 THEN a ELSE Gcd(b, a % b)

\* the number n/d, d >= 0, in lowest terms
Rat(n, d) ==
    IF d = 0 THEN [n |-> Sign(n), d |-> 0]
    ELSE LET g == Gcd(Abs(n), d) IN [n |-> n \div g, d |-> d \div g]

Num(i) == [n |-> i, d |-> 1]

NaN == [n |-> 0, d |-> 0]

IsNaN(x) == x = NaN

IsFinite(x) == x.d > 0

RNeg(x) == [n |-> -x.n, d |-> x.d]

RAdd(x, y) ==
    IF IsNaN(x) \/ IsNaN(y) THEN NaN
    ELSE IF x.d = 0 /\ y.d = 0 THEN (IF x.n = y.n THEN x ELSE NaN)
    ELSE IF x.d = 0 THEN x
    ELSE IF y.d = 0 THEN y
    ELSE Rat(x.n * y.d + y.n * x.d, x.d * y.d)

RSub(x, y) == RAdd(x, RNeg(y))

RMul(x, y) == Rat(x.n * y.n, x.d * y.d)

\* x / k for an integer k > 0
RDivInt(x, k) == Rat(x.n, x.d * k)

\* a < b, a > b, a === b, a >= b, a <= b on JavaScript numbers
RLt(x, y) ==
    IF IsNaN(x) \/ IsNaN(y) THEN FALSE
    ELSE IF x.d = 0 /\ y.d = 0 THEN x.n < y.n
    ELSE x.n * y.d < y.n * x.d

RGt(x, y) == RLt(y, x)

REq(x, y) == ~IsNaN(x) /\ ~IsNaN(y) /\ x = y

RGe(x, y) == RGt(x, y) \/ REq(x, y)

RLe(x, y) == RLt(x, y) \/ REq(x, y)

\* Math.min(a, b) and Math.max(a, b): NaN if either argument is NaN
RMin(x, y) == IF IsNaN(x) \/ IsNaN(y) THEN NaN ELSE IF RLt(y, x) THEN y ELSE x

RMax(x, y) == IF IsNaN(x) \/ IsNaN(y) THEN NaN ELSE IF RGt(y, x) THEN y ELSE x

InUnit(x) == RGe(x, Num(0)) /\ RLe(x, Num(1))

----------------------------------------------------------------------------
(* Array.prototype.sort(comparefn) and slice *)

\* the value SortCompare derives from the comparator's result: NaN counts as +0
CmpSign(x) == IF IsNaN(x) THEN 0 ELSE x.n

\* the comparator (a, b) => b.key - a.key on the elements at positions i and j
\* of an array whose keys are the numbers keys[1], keys[2], ...
CmpDesc(keys, i, j) == CmpSign(RSub(keys[j], keys[i]))

RECURSIVE InsertSorted(_, _, _)
InsertSorted(x, idx, keys) ==
    IF idx = <<>> THEN <<x>>
    ELSE IF CmpDesc(keys, idx[Len(idx)], x) <= 0 THEN Append(idx, x)
    ELSE Append(InsertSorted(x, SubSeq(idx, 1, Len(idx) - 1), keys), idx[Len(idx)])

\* the positions 1..n in stable sorted order, for a consistent comparator
RECURSIVE StableSort(_, _)
StableSort(n, keys) ==
    IF n = 0 THEN <<>> ELSE InsertSorted(n, StableSort(n - 1, keys), keys)

\* ECMAScript: a comparator is consistent when its "equal" and "less" are
\* transitive.  A difference of keys orders every list without a NaN key; a NaN
\* key compares equal to every key, which is consistent only when all keys do.
ConsistentCmp(keys) ==
    \/ \A i \in 1..Len(keys) : ~IsNaN(keys[i])
    \/ \A i, j \in 1..Len(keys) : CmpDesc(keys, i, j) = 0

PermutationsOf(n) ==
    { q \in [1..n -> 1..n] : \A a, b \in 1..n : q[a] = q[b] => a = b }

\* the orders sort((a, b) => b.key - a.key) may leave the array s in: the stable
\* descending order, or, with an inconsistent comparator, an
\* implementation-defined permutation
SortOutcomes(s, keys) ==
    LET orders == IF ConsistentCmp(keys) THEN {StableSort(Len(s), keys)}
                  ELSE PermutationsOf(Len(s))
    IN { [i \in 1..Len(s) |-> s[idx[i]]] : idx \in orders }

\* s.slice(0, k) for an integer k >= 0
Slice(s, k) == SubSeq(s, 1, IF k < Len(s) THEN k ELSE Len(s))

SeqsUpTo(S, k) == UNION { [1..m -> S] : m \in 0..k }

\* the lists of at most k distinct elements of S
DistinctSeqsUpTo(S, k) ==
    { s \in SeqsUpTo(S, k) : \A i, j \in 1..Len(s) : s[i] = s[j] => i = j }

RECURSIVE SumSeq(_)
SumSeq(s) == IF s = <<>> THEN Num(0) ELSE RAdd(SumSeq(SubSeq(s, 1, Len(s) - 1)), s[Len(s)])

\* the elements of s at the positions in idx, in the order of s
RECURSIVE Pick(_, _, _)
Pick(s, idx, i) ==
    IF i > Len(s) THEN <<>>
    ELSE (IF i \in idx THEN <<s[i]>> ELSE <<>>) \o Pick(s, idx, i + 1)

\* s.filter(Keep)
Filter(s, Keep(_)) == Pick(s, { i \in 1..Len(s) : Keep(s[i]) }, 1)

\* list.includes(x)
Includes(s, x) == \E i \in 1..Len(s) : s[i] = x

----------------------------------------------------------------------------
(* Dates and "HH:MM" strings *)

HoursPerDay == 24
DaysPerWeek == 7

\* Date.getDay(): 0 = Sunday
GetDay(t) == (t \div HoursPerDay) % DaysPerWeek

\* Date.getHours()
GetHours(t) == t % HoursPerDay

\* the timestamp of weekday d at hour h in week w
At(w, d, h) == (w * DaysPerWeek + d) * HoursPerDay + h

Digits == <<"0", "1", "2", "3", "4", "5", "6", "7", "8", "9">>

DigitVal(c) == CHOOSE v \in 0..9 : Digits[v + 1] = c

IsDigit(c) == \E v \in 0..9 : Digits[v + 1] = c

\* n.toString() for an integer n >= 0, as a sequence of characters
RECURSIVE NumToString(_)
NumToString(n) ==
    IF n < 10 THEN <<Digits[n + 1]>> ELSE Append(NumToString(n \div 10), Digits[(n % 10) + 1])

\* s.padStart(2, '0')
PadStart2(s) == IF Len(s) >= 2 THEN s ELSE IF Len(s) = 1 THEN <<"0">> \o s ELSE <<"0", "0">>

\* `${h.toString().padStart(2, '0')}:00`
HourString(h) == PadStart2(NumToString(h)) \o <<":", "0", "0">>

\* s.split(':')[0]
RECURSIVE BeforeColon(_)
BeforeColon(s) ==
    IF s = <<>> \/ Head(s) = ":" THEN <<>> ELSE <<Head(s)>> \o BeforeColon(Tail(s))

\* parseInt(s) of a non-empty string of decimal digits
RECURSIVE ParseInt(_)
ParseInt(s) ==
    IF s = <<>> THEN 0 ELSE ParseInt(SubSeq(s, 1, Len(s) - 1)) * 10 + DigitVal(s[Len(s)])

----------------------------------------------------------------------------
(* SlotRecommender: the data it works on *)

NoLoad == Undefined

Interviewer(i) == [id |-> i, email |-> i \o "@x"]

RawSlot(i, start, end, who, load) ==
    [id |-> i, startTime |-> start, endTime |-> end, interviewers |-> who, loadInfo |-> load]

Load(c, m) == Some([currentLoad |-> c, maxLoad |-> m])

\* candidate slots: a plain one (Tue 10:00, load 3 of 10), one without loadInfo
\* (Wed 10:00), an overloaded one (3 of 2) with two interviewers, and one
\* with maxLoad = 0 whose endTime equals its startTime
SlotUniverse ==
    { RawSlot("s1", At(0, 2, 10), At(0, 2, 11), <<Interviewer("a")>>, Load(3, 10)),
      RawSlot("s2", At(0, 3, 10), At(0, 3, 11), <<Interviewer("b")>>, NoLoad),
      RawSlot("s3", At(0, 1, 18), At(0, 1, 19), <<Interviewer("a"), Interviewer("b")>>, Load(3, 2)),
      RawSlot("s4", At(0, 3, 15), At(0, 3, 15), <<Interviewer("b")>>, Load(0, 0)) }

TimeRange(a, b) == [start |-> HourString(a), end |-> HourString(b)]

\* what a range's start or end holds when it is not a string: undefined
NotAString == <<"undefined">>

\* SchedulingPreferences as the recommender reads them; the second range of u4
\* has no start
PrefUniverse ==
    { [userId |-> "u1", preferredDays |-> Some(<<2>>),
       preferredTimeRanges |-> Some(<<TimeRange(9, 12), TimeRange(10, 11)>>)],
      [userId |-> "u2", preferredDays |-> Some(<<1, 2, 3, 4>>),
       preferredTimeRanges |-> Some(<<TimeRange(14, 17)>>)],
      [userId |-> "u3", preferredDays |-> Undefined, preferredTimeRanges |-> Undefined],
      [userId |-> "u4", preferredDays |-> Some(<<2>>),
       preferredTimeRanges |-> Some(<<TimeRange(9, 12), [start |-> NotAString, end |-> HourString(17)]>>)] }

HistoryRecord(who, dur, day, hour, ok, sat, resch) ==
    [participants |-> who, duration |-> dur, dayOfWeek |-> day, hourOfDay |-> hour,
     successful |-> ok, satisfaction |-> sat, rescheduled |-> resch]

H1 == HistoryRecord(<<"a@x">>, 60, 2, 10, TRUE, Some(4), FALSE)
H2 == HistoryRecord(<<"a@x", "b@x">>, 30, 2, 11, FALSE, Some(0), TRUE)
H3 == HistoryRecord(<<"b">>, 60, 6, 10, TRUE, Undefined, FALSE)
H4 == HistoryRecord(<<"b@x">>, 45, 3, 15, TRUE, Some(5), FALSE)

\* the preference lists and histories updateData is called with
PrefLists ==
    LET P(u) == CHOOSE p \in PrefUniverse : p.userId = u
    IN { <<>>, <<P("u1"), P("u2"), P("u3")>>, <<P("u1"), P("u4")>> }

HistoryLists == { <<>>, <<H1, H2, H3, H4>> }

----------------------------------------------------------------------------
(* SlotRecommender: scoring *)

\* the loop over pref.preferredTimeRanges: the first range containing the hour
\* adds 0.5 and breaks
RECURSIVE RangeScore(_, _, _)
RangeScore(ranges, i, hourOfDay) ==
    IF i > Len(ranges) THEN Num(0)
    ELSE LET startHour == ParseInt(BeforeColon(ranges[i].start))
             endHour == ParseInt(BeforeColon(ranges[i].end))
         IN IF hourOfDay >= startHour /\ hourOfDay < endHour THEN Rat(1, 2)
            ELSE RangeScore(ranges, i + 1, hourOfDay)

\* whether the loop over pref.preferredTimeRanges throws a TypeError: it reaches
\* a range whose start or end has no split method before a range that contains
\* the hour ends the loop
RECURSIVE RangeThrows(_, _, _)
RangeThrows(ranges, i, hourOfDay) ==
    IF i > Len(ranges) THEN FALSE
    ELSE IF ranges[i].start = NotAString \/ ranges[i].end = NotAString THEN TRUE
    ELSE LET startHour == ParseInt(BeforeColon(ranges[i].start))
             endHour == ParseInt(BeforeColon(ranges[i].end))
         IN IF hourOfDay >= startHour /\ hourOfDay < endHour THEN FALSE
            ELSE RangeThrows(ranges, i + 1, hourOfDay)

\* a variant of the loop without the break: every range containing the hour
\* adds 0.5
RECURSIVE RangeScoreNoBreak(_, _, _)
RangeScoreNoBreak(ranges, i, hourOfDay) ==
    IF i > Len(ranges) THEN Num(0)
    ELSE IF ranges[i].start = NotAString \/ ranges[i].end = NotAString
    THEN RangeScoreNoBreak(ranges, i + 1, hourOfDay)
    ELSE LET startHour == ParseInt(BeforeColon(ranges[i].start))
             endHour == ParseInt(BeforeColon(ranges[i].end))
         IN RAdd(IF hourOfDay >= startHour /\ hourOfDay < endHour THEN Rat(1, 2) ELSE Num(0),
                 RangeScoreNoBreak(ranges, i + 1, hourOfDay))

\* a variant that counts every matching range
ProfileScoreNoBreak(pref, dayOfWeek, hourOfDay) ==
    LET dayPart == IF pref.preferredDays # Undefined /\ Includes(Val(pref.preferredDays), dayOfWeek)
                   THEN Rat(1, 2) ELSE Num(0)
        timePart == IF pref.preferredTimeRanges # Undefined
                    THEN RangeScoreNoBreak(Val(pref.preferredTimeRanges), 1, hourOfDay) ELSE Num(0)
    IN RMin(RAdd(dayPart, timePart), Num(1))

\* the body of the loop over this.preferences
ProfileScore(pref, dayOfWeek, hourOfDay) ==
    LET dayPart == IF pref.preferredDays # Undefined /\ Includes(Val(pref.preferredDays), dayOfWeek)
                   THEN Rat(1, 2) ELSE Num(0)
        timePart == IF pref.preferredTimeRanges # Undefined
                    THEN RangeScore(Val(pref.preferredTimeRanges), 1, hourOfDay) ELSE Num(0)
    IN RMin(RAdd(dayPart, timePart), Num(1))

scorePreferenceMatch(preferences, dayOfWeek, hourOfDay) ==
    IF preferences = Undefined \/ Len(Val(preferences)) = 0 THEN Rat(1, 2)
    ELSE LET prefs == Val(preferences)
             totalScore == SumSeq([i \in 1..Len(prefs) |-> ProfileScore(prefs[i], dayOfWeek, hourOfDay)])
             count == Len(prefs)
         IN IF count > 0 THEN RDivInt(totalScore, count) ELSE Rat(1, 2)

\* whether scorePreferenceMatch throws
scorePreferenceMatchThrows(preferences, dayOfWeek, hourOfDay) ==
    /\ preferences # Undefined
    /\ \E i \in 1..Len(Val(preferences)) :
        /\ Val(preferences)[i].preferredTimeRanges # Undefined
        /\ RangeThrows(Val(Val(preferences)[i].preferredTimeRanges), 1, hourOfDay)

\* a variant whose default without loadInfo is the neutral 0.5
scoreLoadBalanceNeutralDefault(slot) ==
    IF slot.loadInfo = NoLoad THEN Rat(1, 2)
    ELSE LET utilization == Rat(Val(slot.loadInfo).currentLoad, Val(slot.loadInfo).maxLoad)
         IN RSub(Num(1), utilization)

scoreLoadBalance(slot) ==
    IF slot.loadInfo = NoLoad THEN Rat(7, 10)
    ELSE LET utilization == Rat(Val(slot.loadInfo).currentLoad, Val(slot.loadInfo).maxLoad)
         IN RSub(Num(1), utilization)

scoreTimeOfDay(hourOfDay) ==
    IF hourOfDay >= 9 /\ hourOfDay < 12 THEN Rat(9, 10)
    ELSE IF hourOfDay >= 14 /\ hourOfDay < 17 THEN Rat(8, 10)
    ELSE IF hourOfDay >= 17 /\ hourOfDay < 19 THEN Rat(5, 10)
    ELSE IF hourOfDay >= 12 /\ hourOfDay < 14 THEN Rat(4, 10)
    ELSE IF hourOfDay >= 6 /\ hourOfDay < 9 THEN Rat(3, 10)
    ELSE Rat(2, 10)

scoreDayOfWeek(dayOfWeek) ==
    IF dayOfWeek >= 2 /\ dayOfWeek <= 4 THEN Rat(9, 10)
    ELSE IF dayOfWeek = 5 THEN Rat(7, 10)
    ELSE IF dayOfWeek = 1 THEN Rat(6, 10)
    ELSE Rat(1, 10)

scorePastSuccess(history, dayOfWeek, hourOfDay) ==
    IF history = Undefined \/ Len(Val(history)) = 0 THEN Rat(1, 2)
    ELSE LET hist == Val(history)
             Similar(h) == h.dayOfWeek = dayOfWeek /\ Abs(h.hourOfDay - hourOfDay) <= 1
             similarSlots == Filter(hist, Similar)
             Ok(h) == h.successful
             successCount == Len(Filter(similarSlots, Ok))
         IN IF Len(similarSlots) = 0 THEN Rat(1, 2)
            ELSE Rat(successCount, Len(similarSlots))

\* `if (record.satisfaction)`: undefined and 0 are falsy
Truthy(v) == v # Undefined /\ Val(v) # 0

\* the satisfaction terms one interviewer contributes, in history order
SatisfactionTerms(hist, interviewer) ==
    LET Mine(h) == Includes(h.participants, interviewer.email)
        Rated(h) == Truthy(h.satisfaction)
        rated == Filter(Filter(hist, Mine), Rated)
    IN [i \in 1..Len(rated) |-> Rat(Val(rated[i].satisfaction), 5)]

RECURSIVE AllSatisfactionTerms(_, _)
AllSatisfactionTerms(hist, interviewers) ==
    IF interviewers = <<>> THEN <<>>
    ELSE SatisfactionTerms(hist, Head(interviewers)) \o AllSatisfactionTerms(hist, Tail(interviewers))

scoreParticipantSatisfaction(history, interviewers) ==
    IF history = Undefined \/ Len(Val(history)) = 0 THEN Rat(1, 2)
    ELSE LET terms == AllSatisfactionTerms(Val(history), interviewers)
             totalSatisfaction == SumSeq(terms)
             count == Len(terms)
         IN IF count > 0 THEN RDivInt(totalSatisfaction, count) ELSE Rat(1, 2)

calculateFactors(prefs, hist, slot) ==
    LET dayOfWeek == GetDay(slot.startTime)
        hourOfDay == GetHours(slot.startTime)
    IN [preferenceMatch |-> scorePreferenceMatch(prefs, dayOfWeek, hourOfDay),
        loadBalance |-> scoreLoadBalance(slot),
        timeOfDay |-> scoreTimeOfDay(hourOfDay),
        dayOfWeek |-> scoreDayOfWeek(dayOfWeek),
        pastSuccess |-> scorePastSuccess(hist, dayOfWeek, hourOfDay),
        participantSatisfaction |-> scoreParticipantSatisfaction(hist, slot.interviewers)]

\* whether calculateFactors throws: the other five factors read only fields
\* that every slot and every record has
calculateFactorsThrows(prefs, hist, slot) ==
    scorePreferenceMatchThrows(prefs, GetDay(slot.startTime), GetHours(slot.startTime))

FactorNames ==
    {"preferenceMatch", "loadBalance", "timeOfDay", "dayOfWeek", "pastSuccess",
     "participantSatisfaction"}

weights ==
    [preferenceMatch |-> Rat(30, 100), loadBalance |-> Rat(25, 100), timeOfDay |-> Rat(15, 100),
     dayOfWeek |-> Rat(10, 100), pastSuccess |-> Rat(15, 100),
     participantSatisfaction |-> Rat(5, 100)]

\* (x * 100).toFixed(0) for a finite x >= 0
Percent(x) == (2 * 100 * x.n + x.d) \div (2 * x.d)

\* a reason: its text and, for the success rate, the percentage in it
Reason(text, pct) == [text |-> text, percent |-> pct]

generateReasons(factors) ==
    LET reasons ==
        (IF RGt(factors.preferenceMatch, Rat(7, 10))
         THEN <<Reason("Matches participant time preferences", 0)>> ELSE <<>>)
        \o (IF RGt(factors.loadBalance, Rat(7, 10))
            THEN <<Reason("Good interviewer load distribution", 0)>> ELSE <<>>)
        \o (IF RGt(factors.timeOfDay, Rat(8, 10))
            THEN <<Reason("Optimal time of day for interviews", 0)>> ELSE <<>>)
        \o (IF RGt(factors.dayOfWeek, Rat(8, 10))
            THEN <<Reason("Preferred day of week", 0)>> ELSE <<>>)
        \o (IF RGt(factors.pastSuccess, Rat(7, 10))
            THEN <<Reason("% historical success rate", Percent(factors.pastSuccess))>> ELSE <<>>)
        \o (IF RGt(factors.participantSatisfaction, Rat(7, 10))
            THEN <<Reason("High interviewer satisfaction history", 0)>> ELSE <<>>)
    IN IF Len(reasons) = 0 THEN <<Reason("Available slot with acceptable conditions", 0)>>
       ELSE reasons

\* the recommendation scoreSlot builds from the factors
Scored(slot, factors) ==
    LET score ==
            RAdd(RAdd(RAdd(RAdd(RAdd(
                RMul(factors.preferenceMatch, weights.preferenceMatch),
                RMul(factors.loadBalance, weights.loadBalance)),
                RMul(factors.timeOfDay, weights.timeOfDay)),
                RMul(factors.dayOfWeek, weights.dayOfWeek)),
                RMul(factors.pastSuccess, weights.pastSuccess)),
                RMul(factors.participantSatisfaction, weights.participantSatisfaction))
        reasons == generateReasons(factors)
    IN [slotId |-> slot.id, startTime |-> slot.startTime, endTime |-> slot.endTime,
        interviewers |-> slot.interviewers, score |-> score, reasons |-> reasons,
        factors |-> factors]

scoreSlot(prefs, hist, slot) ==
    CHOOSE r \in { Scored(slot, factors) : factors \in {calculateFactors(prefs, hist, slot)} } : TRUE

\* whether the promise scoreSlot returns is rejected
scoreSlotThrows(prefs, hist, slot) == calculateFactorsThrows(prefs, hist, slot)

OptionalPrefLists == {Undefined} \cup { Some(l) : l \in PrefLists }

OptionalHistoryLists == {Undefined} \cup { Some(l) : l \in HistoryLists }

\* scoreSlot, tabulated once over the stored data and the slots of the model
ScoredSlots ==
    [k \in { c \in OptionalPrefLists \X OptionalHistoryLists \X SlotUniverse :
                ~scoreSlotThrows(c[1], c[2], c[3]) } |->
        scoreSlot(k[1], k[2], k[3])]

\* whether recommend throws its AgentError: Promise.all is rejected as soon as
\* one scoreSlot promise is, and the catch block wraps the error
recommendThrows(prefs, hist, availableSlots, topN) ==
    /\ Len(availableSlots) > 0
    /\ \E i \in 1..Len(availableSlots) : scoreSlotThrows(prefs, hist, availableSlots[i])

\* scoreSlot, looked up where it is tabulated
ScoreOf(prefs, hist, slot) ==
    IF <<prefs, hist, slot>> \in DOMAIN ScoredSlots THEN ScoredSlots[prefs, hist, slot]
    ELSE scoreSlot(prefs, hist, slot)

\* the values recommend can return for the given stored data and arguments
recommend(prefs, hist, availableSlots, topN) ==
    IF Len(availableSlots) = 0 THEN {<<>>}
    ELSE UNION { { Slice(sorted, topN) :
                     sorted \in SortOutcomes(scoredSlots, [i \in 1..Len(scoredSlots) |-> scoredSlots[i].score]) } :
                 scoredSlots \in {[i \in 1..Len(availableSlots) |-> ScoreOf(prefs, hist, availableSlots[i])]} }

----------------------------------------------------------------------------
(* ConflictResolver: the data it works on *)

ConflictTypes ==
    {"double_booking", "load_exceeded", "outside_hours", "holiday", "preference_violation"}

Conflict(type, description, who, severity) ==
    [type |-> type, description |-> description, affectedParticipants |-> who,
     severity |-> severity]

\* one conflict of each type, with the severities of the architecture document
ConflictUniverse ==
    { Conflict("double_booking", <<"Double-booking detected for: ", "a">>, <<"a">>, 5),
      Conflict("load_exceeded", <<"Weekly load exceeded">>, <<"a", "b">>, 4),
      Conflict("outside_hours", <<"Proposed time (", "2", "0", ":00) is outside standard work hours">>, <<"b">>, 3),
      Conflict("holiday", <<"Public holiday">>, <<>>, 3),
      Conflict("preference_violation", <<"Not a preferred day">>, <<"b">>, 2) }

\* a scored alternative slot (SmartSlotRecommendation) as the resolver reads it
Alternative(i, start, score, preferenceMatch) ==
    [slotId |-> i, startTime |-> start, score |-> score,
     factors |-> [preferenceMatch |-> preferenceMatch]]

\* alternatives: next week at the first work hour with a high score and
\* preference match; this week at the hour the work day ends with a score
\* between 0.5 and 0.6 and a preference match of exactly 0.7; exactly seven days
\* after time 0, at midnight, with a score below 0.5 and no preferenceMatch factor
AlternativeUniverse ==
    { Alternative("a1", At(1, 2, 9), Rat(9, 10), Some(Num(1))),
      Alternative("a2", At(0, 4, 17), Rat(11, 20), Some(Rat(7, 10))),
      Alternative("a3", At(1, 0, 0), Rat(3, 10), Undefined) }

\* the pools updateAvailableSlots is called with
Pools == DistinctSeqsUpTo(AlternativeUniverse, MaxPool)

\* the lists of conflicts resolve is called with
ConflictLists == DistinctSeqsUpTo(ConflictUniverse, MaxConflicts)

----------------------------------------------------------------------------
(* ConflictResolver: suggestions *)

Suggestion(action, description, newSlot, confidence, tradeoffs) ==
    [action |-> action, description |-> description, newSlot |-> newSlot,
     confidence |-> confidence, tradeoffs |-> tradeoffs]

\* new Date(t).toLocaleString(), as the characters of the hour count
LocaleString(t) == NumToString(t)

\* a variant that gives the alternative a fixed confidence
resolveDoubleBookingFixedConfidence(pool) ==
    (IF pool # Undefined /\ Len(Val(pool)) > 0
     THEN LET alternativeSlot == Val(pool)[1]
          IN <<Suggestion("find_alternative",
                          <<"Reschedule to ">> \o LocaleString(alternativeSlot.startTime),
                          Some(alternativeSlot), Rat(7, 10),
                          <<"May not be optimal time", "All participants available">>)>>
     ELSE <<>>)
    \o <<Suggestion("reschedule", <<"Reschedule the conflicting meeting to a later time">>,
                    Undefined, Rat(6, 10),
                    <<"Affects other participants", "May cascade additional conflicts">>)>>
    \o <<Suggestion("change_participants", <<"Assign different interviewers who are available">>,
                    Undefined, Rat(5, 10),
                    <<"Different interviewer expertise", "May affect evaluation consistency">>)>>

\* list[0]: undefined when the list is empty
First(list) == IF Len(list) > 0 THEN Some(list[1]) ELSE Undefined

\* whether resolveDoubleBooking throws a TypeError: alternativeSlot.startTime is
\* read of an undefined alternativeSlot
resolveDoubleBookingThrows(pool) ==
    /\ pool # Undefined
    /\ Len(Val(pool)) > 0
    /\ First(Val(pool)) = Undefined

resolveDoubleBooking(pool) ==
    (IF pool # Undefined /\ Len(Val(pool)) > 0
     THEN LET alternativeSlot == Val(pool)[1]
          IN <<Suggestion("find_alternative",
                          <<"Reschedule to ">> \o LocaleString(alternativeSlot.startTime),
                          Some(alternativeSlot), alternativeSlot.score,
                          <<"May not be optimal time", "All participants available">>)>>
     ELSE <<>>)
    \o <<Suggestion("reschedule", <<"Reschedule the conflicting meeting to a later time">>,
                    Undefined, Rat(6, 10),
                    <<"Affects other participants", "May cascade additional conflicts">>)>>
    \o <<Suggestion("change_participants", <<"Assign different interviewers who are available">>,
                    Undefined, Rat(5, 10),
                    <<"Different interviewer expertise", "May affect evaluation consistency">>)>>

DaysAhead == 7

\* a variant that wants the alternative strictly later than a week from now
resolveLoadExceededStrictlyLater(pool, clock) ==
    <<Suggestion("change_participants", <<"Reassign to interviewers with lower load">>,
                 Undefined, Rat(8, 10),
                 <<"Better load distribution", "Different interviewer perspective">>)>>
    \o (IF pool # Undefined
        THEN LET nextWeek == clock + DaysAhead * HoursPerDay
                 Later(slot) == slot.startTime > nextWeek
                 nextWeekSlots == Filter(Val(pool), Later)
             IN IF Len(nextWeekSlots) > 0
                THEN <<Suggestion("find_alternative", <<"Schedule next week when load is lower">>,
                                  Some(nextWeekSlots[1]), Rat(7, 10),
                                  <<"Delays interview process", "Interviewer has more capacity">>)>>
                ELSE <<>>
        ELSE <<>>)
    \o <<Suggestion("reduce_duration", <<"Reduce interview duration to stay within limits">>,
                    Undefined, Rat(5, 10),
                    <<"Less time for evaluation", "Respects interviewer limits">>)>>

resolveLoadExceeded(pool, clock) ==
    <<Suggestion("change_participants", <<"Reassign to interviewers with lower load">>,
                 Undefined, Rat(8, 10),
                 <<"Better load distribution", "Different interviewer perspective">>)>>
    \o (IF pool # Undefined
        THEN LET nextWeek == clock + DaysAhead * HoursPerDay
                 Later(slot) == slot.startTime >= nextWeek
                 nextWeekSlots == Filter(Val(pool), Later)
             IN IF Len(nextWeekSlots) > 0
                THEN <<Suggestion("find_alternative", <<"Schedule next week when load is lower">>,
                                  Some(nextWeekSlots[1]), Rat(7, 10),
                                  <<"Delays interview process", "Interviewer has more capacity">>)>>
                ELSE <<>>
        ELSE <<>>)
    \o <<Suggestion("reduce_duration", <<"Reduce interview duration to stay within limits">>,
                    Undefined, Rat(5, 10),
                    <<"Less time for evaluation", "Respects interviewer limits">>)>>

WorkStart == 9
WorkEnd == 17

\* a variant that reads withinHoursSlots[0].startTime without asking for the length
resolveOutsideHoursThrowsUnguarded(pool) ==
    /\ pool # Undefined
    /\ LET Within(slot) == GetHours(slot.startTime) >= WorkStart /\ GetHours(slot.startTime) < WorkEnd
           withinHoursSlots == Filter(Val(pool), Within)
       IN First(withinHoursSlots) = Undefined

\* whether resolveOutsideHours throws a TypeError: withinHoursSlots[0].startTime
\* is read of an undefined withinHoursSlots[0]
resolveOutsideHoursThrows(pool) ==
    /\ pool # Undefined
    /\ LET Within(slot) == GetHours(slot.startTime) >= WorkStart /\ GetHours(slot.startTime) < WorkEnd
           withinHoursSlots == Filter(Val(pool), Within)
       IN Len(withinHoursSlots) > 0 /\ First(withinHoursSlots) = Undefined

\* a variant that takes the hour the work day ends for a work hour
resolveOutsideHoursInclusiveEnd(pool) ==
    IF pool # Undefined
    THEN LET Within(slot) == GetHours(slot.startTime) >= WorkStart /\ GetHours(slot.startTime) <= WorkEnd
             withinHoursSlots == Filter(Val(pool), Within)
         IN IF Len(withinHoursSlots) > 0
            THEN <<Suggestion("find_alternative",
                              <<"Reschedule to within work hours: ">>
                                  \o LocaleString(withinHoursSlots[1].startTime),
                              Some(withinHoursSlots[1]), Rat(9, 10),
                              <<"Respects work hours", "May delay scheduling">>)>>
            ELSE <<>>
    ELSE <<>>

resolveOutsideHours(pool) ==
    IF pool # Undefined
    THEN LET Within(slot) == GetHours(slot.startTime) >= WorkStart /\ GetHours(slot.startTime) < WorkEnd
             withinHoursSlots == Filter(Val(pool), Within)
         IN IF Len(withinHoursSlots) > 0
            THEN <<Suggestion("find_alternative",
                              <<"Reschedule to within work hours: ">>
                                  \o LocaleString(withinHoursSlots[1].startTime),
                              Some(withinHoursSlots[1]), Rat(9, 10),
                              <<"Respects work hours", "May delay scheduling">>)>>
            ELSE <<>>
    ELSE <<>>

\* a variant that suggests the last alternative of the pool
resolveHolidayLast(pool) ==
    IF pool # Undefined
    THEN <<Suggestion("find_alternative", <<"Reschedule to next available working day">>,
                      IF Len(Val(pool)) > 0 THEN Some(Val(pool)[Len(Val(pool))]) ELSE Undefined,
                      Rat(9, 10),
                      <<"Avoids holiday scheduling", "May affect interview timeline">>)>>
    ELSE <<>>

\* this.availableSlots[0] is undefined when the array is empty
resolveHoliday(pool) ==
    IF pool # Undefined
    THEN <<Suggestion("find_alternative", <<"Reschedule to next available working day">>,
                      IF Len(Val(pool)) > 0 THEN Some(Val(pool)[1]) ELSE Undefined, Rat(9, 10),
                      <<"Avoids holiday scheduling", "May affect interview timeline">>)>>
    ELSE <<>>

\* slot.factors.preferenceMatch || 0
PreferenceMatchOrZero(slot) ==
    LET pm == slot.factors.preferenceMatch
    IN IF pm = Undefined \/ IsNaN(Val(pm)) THEN Num(0) ELSE Val(pm)

\* a variant that takes a preference match of 0.7 for high
resolvePreferenceViolationFromThreshold(pool) ==
    (IF pool # Undefined
     THEN LET Preferred(slot) == RGe(PreferenceMatchOrZero(slot), Rat(7, 10))
              preferredSlots == Filter(Val(pool), Preferred)
          IN IF Len(preferredSlots) > 0
             THEN <<Suggestion("find_alternative",
                               <<"Reschedule to time matching participant preferences">>,
                               Some(preferredSlots[1]), Rat(8, 10),
                               <<"Matches participant preferences", "Higher likelihood of acceptance">>)>>
             ELSE <<>>
     ELSE <<>>)
    \o <<Suggestion("reschedule", <<"Proceed with current time if urgent (override preference)">>,
                    Undefined, Rat(4, 10),
                    <<"May reduce participant satisfaction", "Meets scheduling urgency">>)>>

resolvePreferenceViolation(pool) ==
    (IF pool # Undefined
     THEN LET Preferred(slot) == RGt(PreferenceMatchOrZero(slot), Rat(7, 10))
              preferredSlots == Filter(Val(pool), Preferred)
          IN IF Len(preferredSlots) > 0
             THEN <<Suggestion("find_alternative",
                               <<"Reschedule to time matching participant preferences">>,
                               Some(preferredSlots[1]), Rat(8, 10),
                               <<"Matches participant preferences", "Higher likelihood of acceptance">>)>>
             ELSE <<>>
     ELSE <<>>)
    \o <<Suggestion("reschedule", <<"Proceed with current time if urgent (override preference)">>,
                    Undefined, Rat(4, 10),
                    <<"May reduce participant satisfaction", "Meets scheduling urgency">>)>>

\* the placeholder returns no suggestions, with or without a provider
getLLMSuggestions(llm, conflict) == <<>>

generateSuggestions(pool, llm, clock, conflict) ==
    LET suggestions ==
            CASE conflict.type = "double_booking" -> resolveDoubleBooking(pool)
              [] conflict.type = "load_exceeded" -> resolveLoadExceeded(pool, clock)
              [] conflict.type = "outside_hours" -> resolveOutsideHours(pool)
              [] conflict.type = "holiday" -> resolveHoliday(pool)
              [] conflict.type = "preference_violation" -> resolvePreferenceViolation(pool)
              [] OTHER -> <<>>
    IN IF llm /\ Len(suggestions) = 0 THEN getLLMSuggestions(llm, conflict) ELSE suggestions

\* whether generateSuggestions throws: the other three rules read no property
\* of a slot that may be missing
generateSuggestionsThrows(pool, conflict) ==
    CASE conflict.type = "double_booking" -> resolveDoubleBookingThrows(pool)
      [] conflict.type = "outside_hours" -> resolveOutsideHoursThrows(pool)
      [] OTHER -> FALSE

\* a variant that returns the suggestions in the order they were generated
resolveConflictUnsorted(pool, llm, clock, conflict) ==
    { [conflictType |-> conflict.type, description |-> conflict.description,
       affectedParticipants |-> conflict.affectedParticipants,
       suggestions |-> generateSuggestions(pool, llm, clock, conflict),
       severity |-> conflict.severity] }

\* the resolutions resolveConflict can return: the suggestions sorted by
\* (a, b) => b.confidence - a.confidence
resolveConflict(pool, llm, clock, conflict) ==
    UNION { { [conflictType |-> conflict.type, description |-> conflict.description,
               affectedParticipants |-> conflict.affectedParticipants,
               suggestions |-> sorted, severity |-> conflict.severity] :
              sorted \in SortOutcomes(suggestions, [i \in 1..Len(suggestions) |-> suggestions[i].confidence]) } :
            suggestions \in {generateSuggestions(pool, llm, clock, conflict)} }

\* the lists the loop of resolve can build for the conflicts from position i on
RECURSIVE ResolveFrom(_, _, _, _, _)
ResolveFrom(pool, llm, clock, conflicts, i) ==
    IF i > Len(conflicts) THEN {<<>>}
    ELSE { <<first>> \o rest : first \in resolveConflict(pool, llm, clock, conflicts[i]),
                               rest \in ResolveFrom(pool, llm, clock, conflicts, i + 1) }

\* a variant that puts each resolution in front of the earlier ones
resolveUnshift(pool, llm, clock, conflicts) ==
    IF Len(conflicts) = 0 THEN {<<>>}
    ELSE { [i \in 1..Len(r) |-> r[Len(r) + 1 - i]] : r \in ResolveFrom(pool, llm, clock, conflicts, 1) }

resolve(pool, llm, clock, conflicts) ==
    IF Len(conflicts) = 0 THEN {<<>>} ELSE ResolveFrom(pool, llm, clock, conflicts, 1)

\* whether resolve throws its AgentError: the catch block wraps what
\* resolveConflict throws for any of the conflicts
resolveThrows(pool, conflicts) ==
    \E i \in 1..Len(conflicts) : generateSuggestionsThrows(pool, conflicts[i])

----------------------------------------------------------------------------
(* ConflictResolver: detection *)

\* a variant that also counts intervals that only touch
checkTimeOverlapTouching(start1, end1, start2, end2) == start1 <= end2 /\ end1 >= start2

checkTimeOverlap(start1, end1, start2, end2) == start1 < end2 /\ end1 > start2

\* the double_booking conflict of one existing booking, if any
DoubleBooking(proposedSlot, existing) ==
    LET overlap == checkTimeOverlap(proposedSlot.startTime, proposedSlot.endTime,
                                    existing.startTime, existing.endTime)
        Booked(p) == Includes(existing.participants, p)
        affectedParticipants == Filter(proposedSlot.interviewers, Booked)
    IN IF overlap /\ Len(affectedParticipants) > 0
       THEN <<Conflict("double_booking",
                       <<"Double-booking detected for: ">> \o affectedParticipants,
                       affectedParticipants, 5)>>
       ELSE <<>>

RECURSIVE DoubleBookings(_, _, _)
DoubleBookings(proposedSlot, existingSchedule, i) ==
    IF i > Len(existingSchedule) THEN <<>>
    ELSE DoubleBooking(proposedSlot, existingSchedule[i])
         \o DoubleBookings(proposedSlot, existingSchedule, i + 1)

\* a variant whose work hours include the hour that starts at 17:00
detectConflictsLateEnd(proposedSlot, existingSchedule) ==
    LET startHour == GetHours(proposedSlot.startTime)
    IN DoubleBookings(proposedSlot, existingSchedule, 1)
       \o (IF startHour < WorkStart \/ startHour > WorkEnd
           THEN <<Conflict("outside_hours",
                           <<"Proposed time (">> \o NumToString(startHour)
                               \o <<":00) is outside standard work hours">>,
                           proposedSlot.interviewers, 3)>>
           ELSE <<>>)

detectConflicts(proposedSlot, existingSchedule) ==
    LET startHour == GetHours(proposedSlot.startTime)
    IN DoubleBookings(proposedSlot, existingSchedule, 1)
       \o (IF startHour < WorkStart \/ startHour >= WorkEnd
           THEN <<Conflict("outside_hours",
                           <<"Proposed time (">> \o NumToString(startHour)
                               \o <<":00) is outside standard work hours">>,
                           proposedSlot.interviewers, 3)>>
           ELSE <<>>)

Booking(start, end, who) == [startTime |-> start, endTime |-> end, participants |-> who]

Proposed(start, end, who) == [startTime |-> start, endTime |-> end, interviewers |-> who]

\* proposed slots on a Tuesday: inside, before and after work hours
ProposedUniverse ==
    { Proposed(At(0, 2, h[1]), At(0, 2, h[2]), who) :
        h \in {<<9, 10>>, <<10, 12>>, <<8, 10>>, <<17, 18>>, <<16, 18>>},
        who \in {<<"a">>, <<"a", "b">>, <<>>} }

\* existing bookings on the same Tuesday
BookingUniverse ==
    { Booking(At(0, 2, 9), At(0, 2, 10), <<"a">>),
      Booking(At(0, 2, 11), At(0, 2, 13), <<"b", "a">>),
      Booking(At(0, 2, 10), At(0, 2, 11), <<"c">>),
      Booking(At(0, 2, 7), At(0, 2, 18), <<"b">>) }

Schedules == DistinctSeqsUpTo(BookingUniverse, MaxSchedule)

----------------------------------------------------------------------------
(* PreferenceEngine *)

\* the number of records of hist for which Keep holds
CountIf(hist, Keep(_)) == Cardinality({ i \in 1..Len(hist) : Keep(hist[i]) })

\* the elements of the set of integers S in ascending order: the order in which
\* Object.entries lists integer keys
RECURSIVE Ascending(_)
Ascending(S) ==
    IF S = {} THEN <<>>
    ELSE LET least == CHOOSE x \in S : \A y \in S : x <= y
         IN <<least>> \o Ascending(S \ {least})

\* the keys of a table of counts, most frequent first: Object.entries(counts)
\* .sort(([_, a], [__, b]) => b - a).map(([key, _]) => parseInt(key))
ByCountDesc(keys, Count(_)) ==
    LET entries == Ascending(keys)
        order == StableSort(Len(entries), [i \in 1..Len(entries) |-> Num(Count(entries[i]))])
    IN [i \in 1..Len(entries) |-> entries[order[i]]]

DefaultDays == <<1, 2, 3, 4>>

analyzePreferredDays(hist) ==
    LET DayCount(d) == LET On(r) == r.successful /\ r.dayOfWeek = d IN CountIf(hist, On)
        days == { hist[i].dayOfWeek : i \in { j \in 1..Len(hist) : hist[j].successful } }
        Ok(r) == r.successful
        totalCount == CountIf(hist, Ok)
        \* count > totalCount / 7
        preferredDays == Ascending({ d \in days : DaysPerWeek * DayCount(d) > totalCount })
    IN IF Len(preferredDays) > 0 THEN preferredDays ELSE DefaultDays

formatTimeRange(hours) ==
    LET start == CHOOSE h \in hours : \A g \in hours : h <= g
        end == (CHOOSE h \in hours : \A g \in hours : h >= g) + 1
    IN [start |-> HourString(start), end |-> HourString(end)]

\* the loop that groups consecutive hours: ranges closed so far, and the hours
\* of the range being built, the latest one last
RECURSIVE GroupHours(_, _, _, _)
GroupHours(sortedHours, i, ranges, currentRange) ==
    IF i > Len(sortedHours)
    THEN (IF Len(currentRange) > 0
          THEN Append(ranges, formatTimeRange({ currentRange[k] : k \in 1..Len(currentRange) }))
          ELSE ranges)
    ELSE IF sortedHours[i] = currentRange[Len(currentRange)] + 1
         THEN GroupHours(sortedHours, i + 1, ranges, Append(currentRange, sortedHours[i]))
         ELSE GroupHours(sortedHours, i + 1,
                         Append(ranges, formatTimeRange({ currentRange[k] : k \in 1..Len(currentRange) })),
                         <<sortedHours[i]>>)

MaxTimeRanges == 3

analyzePreferredTimes(hist) ==
    LET HourCount(h) == LET At_(r) == r.successful /\ r.hourOfDay = h IN CountIf(hist, At_)
        hours == { hist[i].hourOfDay : i \in { j \in 1..Len(hist) : hist[j].successful } }
        sortedHours == ByCountDesc(hours, HourCount)
    IN IF Len(sortedHours) = 0 THEN <<TimeRange(9, 17)>>
       ELSE Slice(GroupHours(sortedHours, 2, <<>>, <<sortedHours[1]>>), MaxTimeRanges)

MinDayRecords == 3

\* the list built by the loop over the weekdays that occur in the history
RECURSIVE AvoidedDays(_, _)
AvoidedDays(hist, days) ==
    IF days = <<>> THEN <<>>
    ELSE LET day == Head(days)
             On(r) == r.dayOfWeek = day
             Moved(r) == r.dayOfWeek = day /\ r.rescheduled
             total == CountIf(hist, On)
             rescheduled == CountIf(hist, Moved)
             rate == Rat(rescheduled, total)
         IN (IF RGt(rate, Rat(4, 10)) /\ total >= MinDayRecords
             THEN <<[dayOfWeek |-> day,
                     reason |-> <<"High reschedule rate (">> \o NumToString(Percent(rate)) \o <<"%)">>]>>
             ELSE <<>>)
            \o AvoidedDays(hist, Tail(days))

\* a variant of the loop that lists a weekday from a rate of 40% on
RECURSIVE AvoidedDaysInclusive(_, _)
AvoidedDaysInclusive(hist, days) ==
    IF days = <<>> THEN <<>>
    ELSE LET day == Head(days)
             On(r) == r.dayOfWeek = day
             Moved(r) == r.dayOfWeek = day /\ r.rescheduled
             total == CountIf(hist, On)
             rescheduled == CountIf(hist, Moved)
             rate == Rat(rescheduled, total)
         IN (IF RGe(rate, Rat(4, 10)) /\ total >= MinDayRecords
             THEN <<[dayOfWeek |-> day,
                     reason |-> <<"High reschedule rate (">> \o NumToString(Percent(rate)) \o <<"%)">>]>>
             ELSE <<>>)
            \o AvoidedDaysInclusive(hist, Tail(days))

analyzeAvoidedTimesInclusive(hist) ==
    AvoidedDaysInclusive(hist, Ascending({ hist[i].dayOfWeek : i \in 1..Len(hist) }))

analyzeAvoidedTimes(hist) ==
    AvoidedDays(hist, Ascending({ hist[i].dayOfWeek : i \in 1..Len(hist) }))

DefaultDuration == 60

analyzePreferredDuration(hist) ==
    IF Len(hist) = 0 THEN DefaultDuration
    ELSE LET DurationCount(d) == LET Of(r) == r.successful /\ r.duration = d IN CountIf(hist, Of)
             durations == { hist[i].duration : i \in { j \in 1..Len(hist) : hist[j].successful } }
             sortedDurations == ByCountDesc(durations, DurationCount)
         IN IF Len(sortedDurations) > 0 THEN sortedDurations[1] ELSE DefaultDuration

DefaultBreak == 15

analyzePreferredBreak(hist) == DefaultBreak

\* a variant whose default days are Monday to Friday
getDefaultPreferencesWeekdays(userId, clock) ==
    [userId |-> userId,
     preferredDays |-> <<1, 2, 3, 4, 5>>,
     preferredTimeRanges |-> <<TimeRange(9, 12), TimeRange(14, 17)>>,
     preferredBreakMinutes |-> DefaultBreak,
     maxInterviewsPerDay |-> 4,
     preferredDuration |-> DefaultDuration,
     timezone |-> "UTC",
     confidence |-> Rat(3, 10),
     updatedAt |-> clock]

getDefaultPreferences(userId, clock) ==
    [userId |-> userId,
     preferredDays |-> DefaultDays,
     preferredTimeRanges |-> <<TimeRange(9, 12), TimeRange(14, 17)>>,
     preferredBreakMinutes |-> DefaultBreak,
     maxInterviewsPerDay |-> 4,
     preferredDuration |-> DefaultDuration,
     timezone |-> "UTC",
     confidence |-> Rat(3, 10),
     updatedAt |-> clock]

FullConfidenceAt == 20

\* a variant whose confidence is the inverse ratio, 20 / history.length
learnPreferencesInverseRatio(userId, hist, clock) ==
    IF Len(hist) = 0 THEN getDefaultPreferences(userId, clock)
    ELSE [userId |-> userId,
          preferredDays |-> analyzePreferredDays(hist),
          preferredTimeRanges |-> analyzePreferredTimes(hist),
          avoidedTimes |-> analyzeAvoidedTimes(hist),
          preferredBreakMinutes |-> analyzePreferredBreak(hist),
          preferredDuration |-> analyzePreferredDuration(hist),
          confidence |-> RMin(Rat(FullConfidenceAt, Len(hist)), Num(1)),
          updatedAt |-> clock]

\* a variant whose confidence saturates one record late
learnPreferencesLateCap(userId, hist, clock) ==
    IF Len(hist) = 0 THEN getDefaultPreferences(userId, clock)
    ELSE [userId |-> userId,
          preferredDays |-> analyzePreferredDays(hist),
          preferredTimeRanges |-> analyzePreferredTimes(hist),
          avoidedTimes |-> analyzeAvoidedTimes(hist),
          preferredBreakMinutes |-> analyzePreferredBreak(hist),
          preferredDuration |-> analyzePreferredDuration(hist),
          confidence |-> RMin(Rat(Len(hist), FullConfidenceAt + 1), Num(1)),
          updatedAt |-> clock]

learnPreferences(userId, hist, clock) ==
    IF Len(hist) = 0 THEN getDefaultPreferences(userId, clock)
    ELSE [userId |-> userId,
          preferredDays |-> analyzePreferredDays(hist),
          preferredTimeRanges |-> analyzePreferredTimes(hist),
          avoidedTimes |-> analyzeAvoidedTimes(hist),
          preferredBreakMinutes |-> analyzePreferredBreak(hist),
          preferredDuration |-> analyzePreferredDuration(hist),
          confidence |-> RMin(Rat(Len(hist), FullConfidenceAt), Num(1)),
          updatedAt |-> clock]

\* mergePreferences(existing, learned): `x && ...` and `x || y` take undefined
\* and 0 for false; an array is always true
mergePreferences(existing, learned, clock) ==
    LET Set(c) == c # Undefined /\ Val(c) # Num(0)
        OrZero(c) == IF Set(c) THEN Val(c) ELSE Num(0)
    IN IF /\ Set(learned.confidence)
          /\ Set(existing.confidence)
          /\ RGt(Val(learned.confidence), Val(existing.confidence))
       THEN learned
       ELSE [existing EXCEPT
               !.preferredDays = IF learned.preferredDays # Undefined
                                 THEN learned.preferredDays ELSE @,
               !.preferredTimeRanges = IF learned.preferredTimeRanges # Undefined
                                       THEN learned.preferredTimeRanges ELSE @,
               !.preferredDuration = IF Truthy(learned.preferredDuration)
                                     THEN learned.preferredDuration ELSE @,
               !.confidence = Some(RMax(OrZero(learned.confidence), OrZero(existing.confidence))),
               !.updatedAt = Some(clock)]

\* the confidences of the profiles mergePreferences is called with
Confidences == {Undefined, Some(Num(0)), Some(Rat(3, 10)), Some(Rat(1, 2)), Some(Num(1))}

\* the profiles a user already has, and the newly learned ones
ExistingProfiles ==
    { [userId |-> "u1", preferredDays |-> days,
       preferredTimeRanges |-> Some(<<TimeRange(9, 12)>>),
       preferredDuration |-> Some(DefaultDuration), preferredBreakMinutes |-> Some(DefaultBreak),
       confidence |-> c, updatedAt |-> Some(0)] :
      days \in {Undefined, Some(DefaultDays)}, c \in Confidences }

LearnedProfiles ==
    { [userId |-> "u1", preferredDays |-> days,
       preferredTimeRanges |-> Some(<<TimeRange(14, 17)>>),
       preferredDuration |-> dur, preferredBreakMinutes |-> Some(2 * DefaultBreak),
       confidence |-> c, updatedAt |-> Some(0)] :
      days \in {Undefined, Some(<<2>>)}, dur \in {Undefined, Some(30)}, c \in Confidences }

\* the history of n records that repeats the records of base in turn
Cycle(base, n) == [i \in 1..n |-> base[((i - 1) % Len(base)) + 1]]

\* what the histories handed to learnPreferences repeat: one successful record;
\* a week of mixed outcomes; a Tuesday of five successful meetings, the first two
\* rescheduled, at three separate hours and two consecutive ones
HistoryBases ==
    { <<H1>>,
      <<H2, H4, H3, HistoryRecord(<<"a@x">>, 30, 2, 14, TRUE, Some(3), TRUE)>>,
      <<HistoryRecord(<<"a@x">>, 60, 2, 8, TRUE, Undefined, TRUE),
        HistoryRecord(<<"a@x">>, 60, 2, 10, TRUE, Undefined, TRUE),
        HistoryRecord(<<"a@x">>, 60, 2, 12, TRUE, Undefined, FALSE),
        HistoryRecord(<<"a@x">>, 60, 2, 14, TRUE, Undefined, FALSE),
        HistoryRecord(<<"a@x">>, 60, 2, 15, TRUE, Undefined, FALSE)>> }

LearnHistories == { Cycle(base, n) : base \in HistoryBases, n \in 0..MaxHistory }

UserIds == {"u1", "u2"}

----------------------------------------------------------------------------
(* State *)

VARIABLES
    now,             \* the wall clock, in hours
    preferences,     \* SlotRecommender.preferences: undefined or a list of profiles
    history,         \* SlotRecommender.history: undefined or a list of records
    recIn,           \* the arguments of the recommender's latest operation, if recommend
    recOut,          \* what the recommender's latest operation returned, if recommend
    llmProvider,     \* whether the ConflictResolver was constructed with a provider
    availableSlots,  \* ConflictResolver.availableSlots: undefined or a pool
    resIn,           \* the argument of the resolver's latest operation, if resolve,
                     \* and the time of the call
    resOut,          \* what the resolver's latest operation returned, if resolve
    detIn,           \* the arguments of the latest detectConflicts call
    detOut,          \* what the latest detectConflicts call returned
    learnIn,         \* the arguments of the latest learnPreferences call
    learnOut,        \* what the latest learnPreferences call returned
    learnPrev,       \* the history size and the confidence of the call before it
    userPreferences, \* SchedulingAgent.userPreferences: per user, undefined or a profile
    schedulingHistory, \* SchedulingAgent.schedulingHistory: per user, undefined or a list
    learned,         \* per user, the history and the profile of the user's latest
                     \* successful learn call, and whether it replaced a profile
    reqIn,           \* the user and the kind of the agent's latest operation, if a request
    mergeIn,         \* the arguments of the latest mergePreferences call
    mergeOut         \* what the latest mergePreferences call returned

recommenderVars == <<preferences, history, recIn, recOut>>

resolverVars == <<llmProvider, availableSlots, resIn, resOut>>

detectorVars == <<detIn, detOut>>

learnerVars == <<learnIn, learnOut, learnPrev>>

agentVars == <<userPreferences, schedulingHistory, learned, reqIn>>

mergerVars == <<mergeIn, mergeOut>>

vars == <<now, recommenderVars, resolverVars, detectorVars, learnerVars, agentVars, mergerVars>>

\* the latest operation was not the observed one, or there was none yet
NoCall == [status |-> "none", value |-> <<>>]

NoRecommendArgs == [slots |-> <<>>, topN |-> 0]

NoResolveArgs == [conflicts |-> <<>>, at |-> 0]

Returned(v) == [status |-> "ok", value |-> v]

\* the operation threw its AgentError
Threw == [status |-> "error", value |-> <<>>]

NoRequest == [userId |-> "", kind |-> "none"]

\* new SlotRecommender(llmProvider): no preferences, no history
InitRecommender ==
    /\ preferences = Undefined
    /\ history = Undefined
    /\ recIn = NoRecommendArgs
    /\ recOut = NoCall

\* new ConflictResolver(llmProvider): with or without a provider, no pool of
\* alternatives
InitResolver ==
    /\ llmProvider \in BOOLEAN
    /\ availableSlots = Undefined
    /\ resIn = NoResolveArgs
    /\ resOut = NoCall
    /\ detIn = [proposedSlot |-> Proposed(0, 0, <<>>), existingSchedule |-> <<>>]
    /\ detOut = NoCall

\* new PreferenceEngine(): no state; no call yet
InitLearner ==
    /\ learnIn = [userId |-> "", history |-> <<>>]
    /\ learnOut = NoCall
    /\ learnPrev = Undefined
    /\ mergeIn = Undefined
    /\ mergeOut = NoCall

\* new SchedulingAgent(config): two empty maps; no request yet
InitAgent ==
    /\ userPreferences = [u \in UserIds |-> Undefined]
    /\ schedulingHistory = [u \in UserIds |-> Undefined]
    /\ learned = [u \in UserIds |-> Undefined]
    /\ reqIn = NoRequest

Init ==
    /\ now = 0
    /\ InitRecommender
    /\ InitResolver
    /\ InitLearner
    /\ InitAgent

\* the state after construction when no provider is configured
InitNoProvider == Init /\ ~llmProvider

\* time passes
Tick ==
    /\ now < MaxDays * HoursPerDay
    /\ now' = now + HoursPerDay
    /\ UNCHANGED <<recommenderVars, resolverVars, detectorVars, learnerVars, agentVars, mergerVars>>

----------------------------------------------------------------------------
(* SlotRecommender: operations *)

\* updateData(preferences?, history?)
UpdateData(newPreferences, newHistory) ==
    /\ preferences' = IF newPreferences # Undefined THEN newPreferences ELSE preferences
    /\ history' = IF newHistory # Undefined THEN newHistory ELSE history
    /\ recIn' = NoRecommendArgs
    /\ recOut' = NoCall
    /\ UNCHANGED <<now, resolverVars, detectorVars, learnerVars, agentVars, mergerVars>>

\* recommend(availableSlots, topN)
Recommend(candidates, topN) ==
    /\ recIn' = [slots |-> candidates, topN |-> topN]
    /\ IF recommendThrows(preferences, history, candidates, topN)
       THEN recOut' = Threw
       ELSE \E result \in recommend(preferences, history, candidates, topN) :
               recOut' = Returned(result)
    /\ UNCHANGED <<now, preferences, history, resolverVars, detectorVars, learnerVars, agentVars, mergerVars>>

\* the lists of candidate slots recommend is called with
CandidateLists == DistinctSeqsUpTo(SlotUniverse, MaxSlots)

NextRecommender ==
    \/ \E p \in OptionalPrefLists, h \in OptionalHistoryLists : UpdateData(p, h)
    \/ \E slots \in CandidateLists, topN \in 0..MaxTopN : Recommend(slots, topN)

SpecRecommender == InitNoProvider /\ [][NextRecommender]_vars

MaxTieSlots == 4

\* two slots that score alike without stored data, between them a slot whose
\* load makes its score NaN, then a slot of another score
TieBase ==
    LET S(i) == CHOOSE slot \in SlotUniverse : slot.id = i
    IN <<S("s1"), S("s4"), S("s2"), S("s3")>>

Rotate(s, k) == [i \in 1..Len(s) |-> s[((i + k - 1) % Len(s)) + 1]]

\* longer candidate lists, ranked in full: the leading slots of TieBase, from
\* each of its slots on
TieLists ==
    { SubSeq(Rotate(TieBase, k), 1, n) :
        k \in 0..(Len(TieBase) - 1), n \in { m \in 0..MaxTieSlots : m <= Len(TieBase) } }

NextRecommenderTies ==
    \/ \E p \in OptionalPrefLists, h \in OptionalHistoryLists : UpdateData(p, h)
    \/ \E slots \in TieLists : Recommend(slots, MaxTieSlots)

SpecRecommenderTies == InitNoProvider /\ [][NextRecommenderTies]_vars

----------------------------------------------------------------------------
(* ConflictResolver: operations *)

\* updateAvailableSlots(slots)
UpdateAvailableSlots(slots) ==
    /\ availableSlots' = Some(slots)
    /\ resIn' = NoResolveArgs
    /\ resOut' = NoCall
    /\ UNCHANGED <<now, llmProvider, recommenderVars, detectorVars, learnerVars, agentVars, mergerVars>>

\* resolve(conflicts)
Resolve(conflicts) ==
    /\ resIn' = [conflicts |-> conflicts, at |-> now]
    /\ IF resolveThrows(availableSlots, conflicts)
       THEN resOut' = Threw
       ELSE \E result \in resolve(availableSlots, llmProvider, now, conflicts) :
               resOut' = Returned(result)
    /\ UNCHANGED <<now, llmProvider, availableSlots, recommenderVars, detectorVars, learnerVars, agentVars, mergerVars>>

\* detectConflicts(proposedSlot, existingSchedule)
DetectConflicts(proposedSlot, existingSchedule) ==
    /\ detIn' = [proposedSlot |-> proposedSlot, existingSchedule |-> existingSchedule]
    /\ detOut' = Returned(detectConflicts(proposedSlot, existingSchedule))
    /\ UNCHANGED <<now, recommenderVars, resolverVars, learnerVars, agentVars, mergerVars>>

NextResolver ==
    \/ Tick
    \/ \E slots \in Pools : UpdateAvailableSlots(slots)
    \/ \E conflicts \in ConflictLists : Resolve(conflicts)

SpecResolver == Init /\ [][NextResolver]_vars

NextDetector ==
    \E p \in ProposedUniverse, schedule \in Schedules : DetectConflicts(p, schedule)

SpecDetector == InitNoProvider /\ [][NextDetector]_vars

----------------------------------------------------------------------------
(* PreferenceEngine: operations *)

\* learnPreferences(userId, history)
LearnPreferences(userId, hist) ==
    /\ learnIn' = [userId |-> userId, history |-> hist]
    /\ learnOut' = Returned(learnPreferences(userId, hist, now))
    /\ learnPrev' = IF learnOut.status = "ok"
                    THEN Some([size |-> Len(learnIn.history), confidence |-> learnOut.value.confidence])
                    ELSE Undefined
    /\ UNCHANGED <<now, recommenderVars, resolverVars, detectorVars, agentVars, mergerVars>>

NextLearner ==
    \E userId \in UserIds, hist \in LearnHistories : LearnPreferences(userId, hist)

SpecLearner == InitNoProvider /\ [][NextLearner]_vars

\* mergePreferences(existing, learned)
MergePreferences(existing, learnedProfile) ==
    /\ mergeIn' = Some([existing |-> existing, learned |-> learnedProfile])
    /\ mergeOut' = Returned(mergePreferences(existing, learnedProfile, now))
    /\ UNCHANGED <<now, recommenderVars, resolverVars, detectorVars, learnerVars, agentVars>>

NextMerger ==
    \/ Tick
    \/ \E existing \in ExistingProfiles, learnedProfile \in LearnedProfiles :
          MergePreferences(existing, learnedProfile)

SpecMerger == InitNoProvider /\ [][NextMerger]_vars

----------------------------------------------------------------------------
(* SchedulingAgent: operations *)

MaxFound == 2

ScheduleTopN == 5

RescheduleTopN == 3

\* what learnPreferences is called with: a value that is not an array, no
\* record, a week of records
AgentHistories == {Undefined} \cup { Some(l) : l \in HistoryLists }

\* what findSlots returns
FoundSlots ==
    { slot \in SlotUniverse : slot.id \in {"s1", "s2"} }

FoundLists == DistinctSeqsUpTo(FoundSlots, MaxFound)

\* a stored profile as the recommender reads it, its preferredDays and
\* preferredTimeRanges being optional fields there
AsPreferences(profile) ==
    [profile EXCEPT !.preferredDays = Some(@), !.preferredTimeRanges = Some(@)]

\* whether PreferenceEngine.learnPreferences throws its AgentError: a history
\* that is not an array has no length
learnPreferencesThrows(hist) == hist = Undefined

\* the candidates handleReschedule hands to recommend: no loadInfo
WithoutLoadInfo(slots) == [i \in 1..Len(slots) |-> [slots[i] EXCEPT !.loadInfo = NoLoad]]

\* a variant that keeps the profile and the history a user already has
AgentLearnPreferencesKeepFirst(userId, hist) ==
    /\ IF learnPreferencesThrows(hist)
       THEN UNCHANGED <<userPreferences, schedulingHistory, learned>>
       ELSE /\ userPreferences' =
                  IF userPreferences[userId] # Undefined THEN userPreferences
                  ELSE [userPreferences EXCEPT
                           ![userId] = Some(learnPreferences(userId, Val(hist), now))]
            /\ schedulingHistory' =
                  IF schedulingHistory[userId] # Undefined THEN schedulingHistory
                  ELSE [schedulingHistory EXCEPT ![userId] = hist]
            /\ learned' = [learned EXCEPT
                  ![userId] = Some([history |-> Val(hist),
                                    replaced |-> userPreferences[userId] # Undefined])]
    /\ reqIn' = NoRequest
    /\ recIn' = NoRecommendArgs
    /\ recOut' = NoCall
    /\ UNCHANGED <<now, preferences, history, resolverVars, detectorVars, learnerVars, mergerVars>>

\* SchedulingAgent.learnPreferences(userId, history), and the learn_preferences
\* tool: the error of a failed call is caught and nothing is stored
AgentLearnPreferences(userId, hist) ==
    /\ IF learnPreferencesThrows(hist)
       THEN UNCHANGED <<userPreferences, schedulingHistory, learned>>
       ELSE /\ userPreferences' = [userPreferences EXCEPT
                  ![userId] = Some(learnPreferences(userId, Val(hist), now))]
            /\ schedulingHistory' = [schedulingHistory EXCEPT ![userId] = hist]
            /\ learned' = [learned EXCEPT
                  ![userId] = Some([history |-> Val(hist),
                                    replaced |-> userPreferences[userId] # Undefined])]
    /\ reqIn' = NoRequest
    /\ recIn' = NoRecommendArgs
    /\ recOut' = NoCall
    /\ UNCHANGED <<now, preferences, history, resolverVars, detectorVars, learnerVars, mergerVars>>

\* handleSchedule(userId, parsed, context), from the slots findSlots returned
HandleSchedule(userId, slots) ==
    /\ reqIn' = [userId |-> userId, kind |-> "schedule"]
    /\ IF Len(slots) = 0
       THEN /\ recIn' = NoRecommendArgs
            /\ recOut' = NoCall
            /\ UNCHANGED <<preferences, history>>
       ELSE LET loadedPreferences ==
                    IF userPreferences[userId] # Undefined
                    THEN Some(<<AsPreferences(Val(userPreferences[userId]))>>)
                    ELSE preferences
                loadedHistory ==
                    IF schedulingHistory[userId] # Undefined
                    THEN schedulingHistory[userId]
                    ELSE history
            IN /\ preferences' = loadedPreferences
               /\ history' = loadedHistory
               /\ recIn' = [slots |-> slots, topN |-> ScheduleTopN]
               /\ IF recommendThrows(loadedPreferences, loadedHistory, slots, ScheduleTopN)
                  THEN recOut' = Threw
                  ELSE \E result \in recommend(loadedPreferences, loadedHistory, slots, ScheduleTopN) :
                          recOut' = Returned(result)
    /\ UNCHANGED <<now, resolverVars, detectorVars, learnerVars,
                   userPreferences, schedulingHistory, learned, mergerVars>>

\* handleReschedule(userId, parsed, context) for a request that names its
\* meeting, from the slots findSlots returned
HandleReschedule(userId, slots) ==
    /\ reqIn' = [userId |-> userId, kind |-> "reschedule"]
    /\ recIn' = [slots |-> WithoutLoadInfo(slots), topN |-> RescheduleTopN]
    /\ IF recommendThrows(preferences, history, WithoutLoadInfo(slots), RescheduleTopN)
       THEN recOut' = Threw
       ELSE \E result \in recommend(preferences, history, WithoutLoadInfo(slots), RescheduleTopN) :
               recOut' = Returned(result)
    /\ UNCHANGED <<now, preferences, history, resolverVars, detectorVars, learnerVars,
                   userPreferences, schedulingHistory, learned, mergerVars>>

NextAgent ==
    \/ \E userId \in UserIds, hist \in AgentHistories : AgentLearnPreferences(userId, hist)
    \/ \E userId \in UserIds, slots \in FoundLists : HandleSchedule(userId, slots)
    \/ \E userId \in UserIds, slots \in FoundLists : HandleReschedule(userId, slots)

SpecAgent == InitNoProvider /\ [][NextAgent]_vars

----------------------------------------------------------------------------
(* Properties of recommend *)

RecommendReturned == recOut.status = "ok"

Min(a, b) == IF a < b THEN a ELSE b

SeqToSet(s) == { s[i] : i \in 1..Len(s) }

\* C1: recommend returns exactly min(topN, number of candidates) recommendations,
\* and each returned score is >= the score of the item after it.
RecommendCountAndOrder ==
    RecommendReturned =>
        /\ Len(recOut.value) = Min(recIn.topN, Len(recIn.slots))
        /\ \A i \in 1..(Len(recOut.value) - 1) :
            RGe(recOut.value[i].score, recOut.value[i + 1].score)

\* C2: each of the six factors and the aggregate score of every returned
\* recommendation lies in [0,1], also for slots with currentLoad > maxLoad or
\* maxLoad = 0.
ScoresInUnitInterval ==
    RecommendReturned =>
        \A i \in 1..Len(recOut.value) :
            /\ InUnit(recOut.value[i].score)
            /\ \A f \in FactorNames : InUnit(recOut.value[i].factors[f])

\* recommend was the recommender's latest operation
RecommendCalled == recOut.status # "none"

\* the candidate a returned recommendation was computed from
CandidateOf(item) == CHOOSE c \in SeqToSet(recIn.slots) : c.id = item.slotId

\* C12: when a candidate slot has end <= start, recommend ends in a validation
\* error and returns no recommendations.
MalformedSlotRejected ==
    (/\ RecommendCalled
     /\ \E i \in 1..Len(recIn.slots) : recIn.slots[i].endTime <= recIn.slots[i].startTime)
        => (recOut.status = "error" /\ recOut.value = <<>>)

\* C13: when the computation of one factor fails for one candidate, recommend
\* does not end in an error: it returns as many recommendations as without the
\* failure, and the failing candidate's factor holds its neutral default.
FactorFailureIsolated ==
    (/\ RecommendCalled
     /\ \E i \in 1..Len(recIn.slots) :
            scorePreferenceMatchThrows(preferences, GetDay(recIn.slots[i].startTime),
                                       GetHours(recIn.slots[i].startTime)))
        => /\ recOut.status = "ok"
           /\ Len(recOut.value) = Min(recIn.topN, Len(recIn.slots))
           /\ \A k \in 1..Len(recOut.value) :
                scorePreferenceMatchThrows(preferences, GetDay(recOut.value[k].startTime),
                                           GetHours(recOut.value[k].startTime))
                    => recOut.value[k].factors.preferenceMatch = Rat(1, 2)

NoProfiles == preferences = Undefined \/ Val(preferences) = <<>>

NoHistory == history = Undefined \/ Val(history) = <<>>

\* C14: recommend never ends in an error because optional inputs are missing:
\* with no profiles preferenceMatch is 0.5, with no history pastSuccess and
\* participantSatisfaction are 0.5, with no loadInfo loadBalance is 0.7, and an
\* empty candidate list yields an empty result.
MissingInputsGetDefaults ==
    RecommendCalled =>
        /\ (NoProfiles \/ recIn.slots = <<>>) => recOut.status = "ok"
        /\ recIn.slots = <<>> => recOut.value = <<>>
        /\ recOut.status = "ok" =>
            \A k \in 1..Len(recOut.value) :
                LET f == recOut.value[k].factors
                IN /\ NoProfiles => f.preferenceMatch = [n |-> 1, d |-> 2]
                   /\ NoHistory => (/\ f.pastSuccess = [n |-> 1, d |-> 2]
                                    /\ f.participantSatisfaction = [n |-> 1, d |-> 2])
                   /\ CandidateOf(recOut.value[k]).loadInfo = <<>>
                        => f.loadBalance = [n |-> 7, d |-> 10]

\* C14 happens: a slot without loadInfo was recommended while the recommender
\* held neither profiles nor history.
RecommendedWithNothingSupplied ==
    /\ RecommendReturned
    /\ preferences = Undefined
    /\ history = Undefined
    /\ \E k \in 1..Len(recOut.value) : CandidateOf(recOut.value[k]).loadInfo = <<>>

\* the hour a well-formed "HH:MM" string names
HourOf(s) == DigitVal(s[1]) * 10 + DigitVal(s[2])

\* the positions of the profile's ranges that contain the hour h
MatchingRanges(pref, h) ==
    IF pref.preferredTimeRanges = Undefined THEN {}
    ELSE { k \in 1..Len(Val(pref.preferredTimeRanges)) :
            LET range == Val(pref.preferredTimeRanges)[k]
            IN /\ range.start # NotAString
               /\ range.end # NotAString
               /\ HourOf(range.start) <= h
               /\ h < HourOf(range.end) }

\* the stored profiles whose preferredDays hold the weekday d
DayMatches(prefs, d) ==
    { k \in 1..Len(prefs) :
        /\ prefs[k].preferredDays # Undefined
        /\ d \in SeqToSet(Val(prefs[k].preferredDays)) }

\* the stored profiles with at least one range that contains the hour h
TimeMatches(prefs, h) == { k \in 1..Len(prefs) : MatchingRanges(prefs[k], h) # {} }

\* C20: the preferenceMatch factor of a returned recommendation is the average
\* over the stored profiles of 0.5 for a preferred weekday plus 0.5 for a start
\* hour within at least one preferred range, counted once; 0.5 without profiles
PreferenceMatchIsAverage ==
    RecommendReturned =>
        \A i \in 1..Len(recOut.value) :
            LET item == recOut.value[i]
                start == CandidateOf(item).startTime
                prefs == IF preferences = Undefined THEN <<>> ELSE Val(preferences)
                halves == Cardinality(DayMatches(prefs, GetDay(start)))
                          + Cardinality(TimeMatches(prefs, GetHours(start)))
            IN item.factors.preferenceMatch =
                  IF Len(prefs) = 0 THEN Rat(1, 2) ELSE Rat(halves, 2 * Len(prefs))

\* a recommendation came back for a slot whose hour lies in two ranges of one
\* of several stored profiles
SeveralRangesMatched ==
    /\ RecommendReturned
    /\ preferences # Undefined
    /\ Len(Val(preferences)) > 1
    /\ \E i \in 1..Len(recOut.value), k \in 1..Len(Val(preferences)) :
        Cardinality(MatchingRanges(Val(preferences)[k],
                                   GetHours(CandidateOf(recOut.value[i]).startTime))) > 1

\* the positions of the stored history records that carry a satisfaction and
\* name at least one interviewer of the slot
RatedRecordsOf(hist, slot) ==
    { k \in 1..Len(hist) :
        /\ hist[k].satisfaction # Undefined
        /\ \E i \in 1..Len(slot.interviewers) :
              slot.interviewers[i].email \in SeqToSet(hist[k].participants) }

\* the sum of the satisfactions of the records at the given positions
RECURSIVE SatisfactionSum(_, _)
SatisfactionSum(hist, positions) ==
    IF positions = {} THEN 0
    ELSE LET k == CHOOSE x \in positions : TRUE
         IN Val(hist[k].satisfaction) + SatisfactionSum(hist, positions \ {k})

\* C21: the participantSatisfaction factor of a returned recommendation is the
\* average of satisfaction / 5 over the history records that name at least one
\* of the slot's interviewers, each record once and a satisfaction of 0
\* included, and 0.5 when there is no such record
ParticipantSatisfactionIsAverage ==
    RecommendReturned =>
        \A i \in 1..Len(recOut.value) :
            LET item == recOut.value[i]
                hist == IF history = Undefined THEN <<>> ELSE Val(history)
                rated == RatedRecordsOf(hist, CandidateOf(item))
            IN item.factors.participantSatisfaction =
                  IF rated = {} THEN Rat(1, 2)
                  ELSE Rat(SatisfactionSum(hist, rated), 5 * Cardinality(rated))

\* the position of a returned recommendation's candidate in the input list
InputPosition(item) == CHOOSE k \in 1..Len(recIn.slots) : recIn.slots[k].id = item.slotId

----------------------------------------------------------------------------
(* Properties of resolve *)

ResolveReturned == resOut.status = "ok"

TwoToThreeSuggestions ==
    ResolveReturned =>
        \A i \in 1..Len(resOut.value) :
            Len(resOut.value[i].suggestions) >= 2 /\ Len(resOut.value[i].suggestions) <= 3

\* C5: in every resolution the suggestions are sorted by descending confidence.
SuggestionsByDescendingConfidence ==
    ResolveReturned =>
        \A i \in 1..Len(resOut.value) :
            \A k \in 1..(Len(resOut.value[i].suggestions) - 1) :
                RGe(resOut.value[i].suggestions[k].confidence,
                    resOut.value[i].suggestions[k + 1].confidence)

\* C5 happens: a double_booking alternative whose score is below 0.5 was ranked
\* after the two generic suggestions.
LowScoreAlternativeRankedLast ==
    /\ ResolveReturned
    /\ \E i \in 1..Len(resOut.value) :
        /\ resOut.value[i].conflictType = "double_booking"
        /\ Len(resOut.value[i].suggestions) = 3
        /\ resOut.value[i].suggestions[3].action = "find_alternative"
        /\ RLt(resOut.value[i].suggestions[3].confidence, Rat(1, 2))

\* what a suggestion is judged by: its action, its confidence and its slot
Essence(sug) == [action |-> sug.action, confidence |-> sug.confidence, newSlot |-> sug.newSlot]

\* C8: for a double_booking conflict and a non-empty pool the resolution holds
\* find_alternative with the first slot of the pool and that slot's score as
\* confidence, reschedule with 0.6 and change_participants with 0.5; with an
\* empty or absent pool only the latter two.
DoubleBookingSuggestions ==
    ResolveReturned =>
        \A i \in 1..Len(resOut.value) :
            resIn.conflicts[i].type = "double_booking" =>
                LET generic == { [action |-> "reschedule", confidence |-> Rat(6, 10), newSlot |-> Undefined],
                                 [action |-> "change_participants", confidence |-> Rat(5, 10), newSlot |-> Undefined] }
                    sugs == resOut.value[i].suggestions
                    hasPool == availableSlots # Undefined /\ Len(Val(availableSlots)) > 0
                IN IF hasPool
                   THEN /\ Len(sugs) = 3
                        /\ { Essence(sugs[k]) : k \in 1..3 } =
                              generic \cup { [action |-> "find_alternative",
                                              confidence |-> Val(availableSlots)[1].score,
                                              newSlot |-> Some(Val(availableSlots)[1])] }
                   ELSE /\ Len(sugs) = 2
                        /\ { Essence(sugs[k]) : k \in 1..2 } = generic

\* C8 happens: a double_booking conflict was resolved against a pool of two
\* alternatives.
DoubleBookingResolvedWithPool ==
    /\ ResolveReturned
    /\ availableSlots # Undefined
    /\ Len(Val(availableSlots)) = 2
    /\ \E i \in 1..Len(resIn.conflicts) : resIn.conflicts[i].type = "double_booking"

\* resolve was the resolver's latest operation
ResolveCalled == resOut.status # "none"

\* the pool holds no alternative the rule for this conflict type can use: it is
\* absent or empty, or no slot of it passes the type's filter
LacksAlternative(type) ==
    \/ availableSlots = Undefined
    \/ Val(availableSlots) = <<>>
    \/ /\ type = "load_exceeded"
       /\ \A k \in 1..Len(Val(availableSlots)) :
            Val(availableSlots)[k].startTime < resIn.at + 7 * 24
    \/ /\ type = "outside_hours"
       /\ \A k \in 1..Len(Val(availableSlots)) :
            Val(availableSlots)[k].startTime % 24 \notin 9..16
    \/ /\ type = "preference_violation"
       /\ \A k \in 1..Len(Val(availableSlots)) :
            LET pm == Val(availableSlots)[k].factors.preferenceMatch
            IN pm = <<>> \/ ~RGt(pm[1], Rat(7, 10))

SameInputsSameResults ==
    [][/\ (/\ resOut.status = "ok"
            /\ resOut'.status = "ok"
            /\ resIn'.conflicts = resIn.conflicts
            /\ availableSlots' = availableSlots)
               => resOut'.value = resOut.value
       /\ (/\ recOut.status = "ok"
            /\ recOut'.status = "ok"
            /\ recIn' = recIn
            /\ preferences' = preferences
            /\ history' = history)
               => recOut'.value = recOut.value]_vars

\* the pool the resolver holds, empty when it holds none
PoolHeld == IF availableSlots = Undefined THEN <<>> ELSE Val(availableSlots)

\* the first of the given positions
FirstOf(positions) == CHOOSE k \in positions : \A l \in positions : k <= l

\* what the suggestions of a resolution are judged by
Essences(sugs) == { Essence(sugs[k]) : k \in 1..Len(sugs) }

\* the positions in the pool of the alternatives that start at least 7 days
\* after the time of the call
WeekAhead == { k \in 1..Len(PoolHeld) : PoolHeld[k].startTime >= resIn.at + 7 * 24 }

\* C26: for a load_exceeded conflict the resolution holds change_participants
\* with 0.8 and reduce_duration with 0.5, and find_alternative with 0.7 exactly
\* when the pool holds an alternative at least 7 days after the call, the first
\* such alternative in pool order being its slot
LoadExceededSuggestions ==
    ResolveReturned =>
        \A i \in 1..Len(resOut.value) :
            resIn.conflicts[i].type = "load_exceeded" =>
                LET sugs == resOut.value[i].suggestions
                    generic == { [action |-> "change_participants", confidence |-> Rat(8, 10),
                                  newSlot |-> Undefined],
                                 [action |-> "reduce_duration", confidence |-> Rat(5, 10),
                                  newSlot |-> Undefined] }
                    later == IF WeekAhead = {} THEN {}
                             ELSE { [action |-> "find_alternative", confidence |-> Rat(7, 10),
                                     newSlot |-> Some(PoolHeld[FirstOf(WeekAhead)])] }
                IN /\ Essences(sugs) = generic \cup later
                   /\ Len(sugs) = Cardinality(generic \cup later)

\* a load_exceeded conflict was resolved against a pool whose first alternative
\* is too early and whose second starts exactly 7 days after the call
LoadExceededResolvedAtSevenDays ==
    /\ ResolveReturned
    /\ \E i \in 1..Len(resIn.conflicts) : resIn.conflicts[i].type = "load_exceeded"
    /\ Len(PoolHeld) = 2
    /\ PoolHeld[1].startTime < resIn.at + 7 * 24
    /\ PoolHeld[2].startTime = resIn.at + 7 * 24

\* the positions in the pool of the alternatives whose start hour is a work hour
InWorkHours == { k \in 1..Len(PoolHeld) : (PoolHeld[k].startTime % 24) \in 9..16 }

\* C27: for an outside_hours conflict the resolution holds find_alternative
\* with 0.9 exactly when the pool holds an alternative whose start hour is in
\* [9,17), the first such alternative in pool order being its slot; no slot
\* that starts outside those hours is suggested
OutsideHoursSuggestions ==
    ResolveReturned =>
        \A i \in 1..Len(resOut.value) :
            resIn.conflicts[i].type = "outside_hours" =>
                LET sugs == resOut.value[i].suggestions
                    found == { k \in 1..Len(sugs) : sugs[k].action = "find_alternative" }
                IN /\ found # {} <=> InWorkHours # {}
                   /\ Cardinality(found) <= 1
                   /\ \A k \in found :
                        /\ sugs[k].confidence = Rat(9, 10)
                        /\ sugs[k].newSlot = Some(PoolHeld[FirstOf(InWorkHours)])
                   /\ \A k \in 1..Len(sugs) :
                        sugs[k].newSlot # Undefined =>
                            (Val(sugs[k].newSlot).startTime % 24) \in 9..16

\* an outside_hours conflict was resolved against a pool whose first
\* alternative starts at 17:00 and whose second starts at 09:00
OutsideHoursResolvedAtBoundaries ==
    /\ ResolveReturned
    /\ \E i \in 1..Len(resIn.conflicts) : resIn.conflicts[i].type = "outside_hours"
    /\ Len(PoolHeld) = 2
    /\ PoolHeld[1].startTime % 24 = 17
    /\ PoolHeld[2].startTime % 24 = 9

MatchOf(slot) ==
    IF slot.factors.preferenceMatch = Undefined THEN Num(0) ELSE Val(slot.factors.preferenceMatch)

\* the positions in the pool of the alternatives of high preference match
HighlyPreferred == { k \in 1..Len(PoolHeld) : RGt(MatchOf(PoolHeld[k]), Rat(7, 10)) }

\* C29: for a preference_violation conflict the resolution ends with the
\* fallback reschedule with 0.4, and before it holds find_alternative with 0.8
\* exactly when the pool holds an alternative whose preferenceMatch is strictly
\* greater than 0.7, the first such alternative in pool order being its slot
PreferenceViolationSuggestions ==
    ResolveReturned =>
        \A i \in 1..Len(resOut.value) :
            resIn.conflicts[i].type = "preference_violation" =>
                LET sugs == resOut.value[i].suggestions
                    fallback == [action |-> "reschedule", confidence |-> Rat(4, 10),
                                 newSlot |-> Undefined]
                IN IF HighlyPreferred = {}
                   THEN Len(sugs) = 1 /\ Essence(sugs[1]) = fallback
                   ELSE /\ Len(sugs) = 2
                        /\ Essence(sugs[1]) =
                              [action |-> "find_alternative", confidence |-> Rat(8, 10),
                               newSlot |-> Some(PoolHeld[FirstOf(HighlyPreferred)])]
                        /\ Essence(sugs[2]) = fallback

\* a preference_violation conflict was resolved against a pool whose first
\* alternative has a preferenceMatch of exactly 0.7 and whose second has more
PreferenceViolationResolvedAtThreshold ==
    /\ ResolveReturned
    /\ \E i \in 1..Len(resIn.conflicts) : resIn.conflicts[i].type = "preference_violation"
    /\ Len(PoolHeld) = 2
    /\ MatchOf(PoolHeld[1]) = Rat(7, 10)
    /\ RGt(MatchOf(PoolHeld[2]), Rat(7, 10))

\* C30: every find_alternative suggestion of every resolution carries a slot,
\* and the slot is one of the pool the resolver holds; so with an empty pool no
\* resolution holds a find_alternative suggestion
AlternativesComeFromPool ==
    ResolveReturned =>
        \A i \in 1..Len(resOut.value) :
            \A k \in 1..Len(resOut.value[i].suggestions) :
                LET sug == resOut.value[i].suggestions[k]
                IN sug.action = "find_alternative" =>
                      /\ sug.newSlot # Undefined
                      /\ Val(sug.newSlot) \in SeqToSet(PoolHeld)

----------------------------------------------------------------------------
(* Properties of detectConflicts *)

DetectReturned == detOut.status = "ok"

\* the conflicts of one type among those detected, in order
Detected(type) == LET Of(c) == c.type = type IN Filter(detOut.value, Of)

\* the existing bookings the proposed slot strictly overlaps and shares an
\* identifier with, as positions of the schedule in ascending order
Clashing ==
    LET p == detIn.proposedSlot
        sched == detIn.existingSchedule
    IN Ascending({ i \in 1..Len(sched) :
                     /\ p.startTime < sched[i].endTime
                     /\ p.endTime > sched[i].startTime
                     /\ SeqToSet(p.interviewers) \cap SeqToSet(sched[i].participants) # {} })

\* C6: there is exactly one double_booking conflict per existing booking that
\* the proposed interval strictly overlaps and that shares an identifier with
\* the proposed slot's resources, and none for any other booking; it has
\* severity 5 and its affectedParticipants is that intersection.
DoubleBookingIffOverlapAndShared ==
    DetectReturned =>
        LET found == Detected("double_booking")
        IN /\ Len(found) = Len(Clashing)
           /\ \A k \in 1..Len(found) :
                /\ found[k].severity = 5
                /\ SeqToSet(found[k].affectedParticipants) =
                      SeqToSet(detIn.proposedSlot.interviewers)
                          \cap SeqToSet(detIn.existingSchedule[Clashing[k]].participants)

\* C6 happens: of two bookings that share an identifier with the proposed slot,
\* one overlaps it and is reported, the other only touches it at an endpoint.
OverlapReportedTouchNot ==
    /\ DetectReturned
    /\ Len(Detected("double_booking")) = 1
    /\ \E i \in 1..Len(detIn.existingSchedule) :
        /\ detIn.existingSchedule[i].endTime = detIn.proposedSlot.startTime
        /\ SeqToSet(detIn.proposedSlot.interviewers)
              \cap SeqToSet(detIn.existingSchedule[i].participants) # {}

\* C7: there is exactly one outside_hours conflict, of severity 3 and affecting
\* all of the proposed slot's resources, if the start hour is below 9 or at
\* least 17, and none for the start hours 9 to 16.
OutsideHoursIffOutside ==
    DetectReturned =>
        LET hour == detIn.proposedSlot.startTime % 24
            found == Detected("outside_hours")
        IN IF hour < 9 \/ hour >= 17
           THEN /\ Len(found) = 1
                /\ found[1].severity = 3
                /\ found[1].affectedParticipants = detIn.proposedSlot.interviewers
           ELSE Len(found) = 0

\* C7 happens: a slot starting at 17:00 was reported against a non-empty
\* schedule.
StartAtSeventeenReported ==
    /\ DetectReturned
    /\ detIn.proposedSlot.startTime % 24 = 17
    /\ Len(detIn.existingSchedule) > 0
    /\ Len(Detected("outside_hours")) = 1

----------------------------------------------------------------------------
(* Properties of learnPreferences *)

LearnReturned == learnOut.status = "ok"

ConfidenceIsSizeOverTwenty ==
    (LearnReturned /\ Len(learnIn.history) > 0) =>
        LET size == Len(learnIn.history)
            c == learnOut.value.confidence
        IN /\ c.d > 0
           /\ (size < 20 => c.n * 20 = size * c.d)
           /\ (size >= 20 => c = Num(1))
           /\ (size = 10 => c = Rat(1, 2))

\* C10 happens: a history of more than 20 records was learned.
LearnedMoreThanTwenty ==
    /\ LearnReturned
    /\ Len(learnIn.history) > 20
    /\ learnOut.value.confidence = Num(1)

\* C11: learnPreferences with an empty history returns the fixed default
\* profile for the given owner: preferredDays {1,2,3,4}, preferredTimeRanges
\* [09:00-12:00, 14:00-17:00], preferredDuration 60, preferredBreakMinutes 15,
\* confidence 0.3.
EmptyHistoryGivesDefaultProfile ==
    (LearnReturned /\ Len(learnIn.history) = 0) =>
        /\ learnOut.value.userId = learnIn.userId
        /\ SeqToSet(learnOut.value.preferredDays) = {1, 2, 3, 4}
        /\ Len(learnOut.value.preferredDays) = 4
        /\ learnOut.value.preferredTimeRanges =
              << [start |-> <<"0", "9", ":", "0", "0">>, end |-> <<"1", "2", ":", "0", "0">>],
                 [start |-> <<"1", "4", ":", "0", "0">>, end |-> <<"1", "7", ":", "0", "0">>] >>
        /\ learnOut.value.preferredDuration = 60
        /\ learnOut.value.preferredBreakMinutes = 15
        /\ learnOut.value.confidence = [n |-> 3, d |-> 10]

\* C11 happens: the empty history was learned for the second owner.
EmptyHistoryLearned ==
    /\ LearnReturned
    /\ Len(learnIn.history) = 0
    /\ learnIn.userId = "u2"
    /\ learnOut.value.userId = "u2"

\* the hours of the successful records of the latest learnPreferences call
SuccessfulHours ==
    { learnIn.history[k].hourOfDay :
        k \in { j \in 1..Len(learnIn.history) : learnIn.history[j].successful } }

\* the number of successful records at hour h
HourFrequency(h) ==
    Cardinality({ k \in 1..Len(learnIn.history) :
                    learnIn.history[k].successful /\ learnIn.history[k].hourOfDay = h })

\* the hours a returned range covers
HoursOfRange(range) == { h \in 0..HoursPerDay : HourOf(range.start) <= h /\ h < HourOf(range.end) }

LearnedRanges == learnOut.value.preferredTimeRanges

\* C22: consecutive hours of successful records that the returned ranges cover
\* lie in one range, whatever their frequencies, and no two returned ranges
\* touch or overlap
ConsecutiveHoursMerged ==
    (LearnReturned /\ Len(learnIn.history) > 0) =>
        /\ \A h \in SuccessfulHours :
            (/\ h + 1 \in SuccessfulHours
             /\ \E k \in 1..Len(LearnedRanges) : h \in HoursOfRange(LearnedRanges[k])
             /\ \E k \in 1..Len(LearnedRanges) : h + 1 \in HoursOfRange(LearnedRanges[k]))
            => \E k \in 1..Len(LearnedRanges) :
                 {h, h + 1} \subseteq HoursOfRange(LearnedRanges[k])
        /\ \A k, l \in 1..Len(LearnedRanges) :
            k # l => /\ HoursOfRange(LearnedRanges[k]) \cap HoursOfRange(LearnedRanges[l]) = {}
                     /\ HourOf(LearnedRanges[k].end) # HourOf(LearnedRanges[l].start)

\* the total frequency of a set of hours
RECURSIVE TotalFrequency(_)
TotalFrequency(hours) ==
    IF hours = {} THEN 0
    ELSE LET h == CHOOSE x \in hours : TRUE
         IN HourFrequency(h) + TotalFrequency(hours \ {h})

\* the contiguous ranges of the successful hours: the maximal runs lo..hi
ContiguousRuns ==
    { run \in SuccessfulHours \X SuccessfulHours :
        /\ run[1] <= run[2]
        /\ \A h \in run[1]..run[2] : h \in SuccessfulHours
        /\ run[1] - 1 \notin SuccessfulHours
        /\ run[2] + 1 \notin SuccessfulHours }

RunReturned(run) ==
    \E k \in 1..Len(LearnedRanges) :
        /\ HourOf(LearnedRanges[k].start) = run[1]
        /\ HourOf(LearnedRanges[k].end) = run[2] + 1

\* C23: at most 3 ranges are returned, and when there are more than 3
\* contiguous ranges no omitted one has a strictly higher total frequency than
\* a returned one
TopThreeRangesByFrequency ==
    LearnReturned =>
        /\ Len(LearnedRanges) <= MaxTimeRanges
        /\ Cardinality(ContiguousRuns) > MaxTimeRanges =>
            \A run \in ContiguousRuns, k \in 1..Len(LearnedRanges) :
                ~RunReturned(run) =>
                    TotalFrequency(run[1]..run[2]) <= TotalFrequency(HoursOfRange(LearnedRanges[k]))

\* the records of the latest call's history on weekday d, and the rescheduled
\* ones among them
RecordsOn(d) == { k \in 1..Len(learnIn.history) : learnIn.history[k].dayOfWeek = d }

RescheduledOn(d) == { k \in RecordsOn(d) : learnIn.history[k].rescheduled }

\* the positions of weekday d in the learned avoidedTimes
AvoidedEntries(d) ==
    { k \in 1..Len(learnOut.value.avoidedTimes) : learnOut.value.avoidedTimes[k].dayOfWeek = d }

\* C24: for a non-empty history a weekday is in the learned avoidedTimes, once,
\* if and only if the history has at least 3 records on it and strictly more
\* than 40% of them are rescheduled
AvoidedIffOftenRescheduled ==
    (LearnReturned /\ Len(learnIn.history) > 0) =>
        \A d \in 0..(DaysPerWeek - 1) :
            /\ Cardinality(AvoidedEntries(d)) <= 1
            /\ AvoidedEntries(d) # {} <=>
                  /\ Cardinality(RecordsOn(d)) >= 3
                  /\ 100 * Cardinality(RescheduledOn(d)) > 40 * Cardinality(RecordsOn(d))

\* a history with at least 3 records on a weekday, exactly 40% of them
\* rescheduled, was learned
ExactlyFortyPercentLearned ==
    /\ LearnReturned
    /\ \E d \in 0..(DaysPerWeek - 1) :
        /\ Cardinality(RecordsOn(d)) >= 3
        /\ 100 * Cardinality(RescheduledOn(d)) = 40 * Cardinality(RecordsOn(d))

----------------------------------------------------------------------------
(* Properties of mergePreferences *)

MergeReturned == mergeOut.status = "ok"

\* C25: mergePreferences returns the profile of strictly higher confidence,
\* learned or existing, unchanged; when neither is higher it takes the
\* learned profile's non-null preferredDays, preferredTimeRanges and
\* preferredDuration; the result's confidence is always the higher of the two
HigherConfidenceWinsWholesale ==
    (/\ MergeReturned
     /\ Val(mergeIn).existing.confidence # Undefined
     /\ Val(mergeIn).learned.confidence # Undefined) =>
        LET existing == Val(mergeIn).existing
            newer == Val(mergeIn).learned
            Pick_(field) == IF newer[field] # Undefined THEN newer[field] ELSE existing[field]
        IN /\ RGt(Val(newer.confidence), Val(existing.confidence)) => mergeOut.value = newer
           /\ RGt(Val(existing.confidence), Val(newer.confidence)) => mergeOut.value = existing
           /\ newer.confidence = existing.confidence =>
                /\ mergeOut.value.preferredDays = Pick_("preferredDays")
                /\ mergeOut.value.preferredTimeRanges = Pick_("preferredTimeRanges")
                /\ mergeOut.value.preferredDuration = Pick_("preferredDuration")
           /\ mergeOut.value.confidence =
                Some(RMax(Val(newer.confidence), Val(existing.confidence)))

----------------------------------------------------------------------------
(* Properties of the SchedulingAgent *)

\* what the agent holds for a user whose latest successful learn call had
\* the given history
StoredAfter(userId, hist) ==
    [profile |-> Some(learnPreferences(userId, hist, now)), history |-> Some(hist)]

\* C17: the profile and the history the agent holds for each user are those of
\* the user's most recent successful learn call, computed from that call's
\* history alone, and nothing is held for a user without such a call; so a
\* learn call for one user leaves what is held for the others as it was
StoredIsLatestLearned ==
    \A u \in UserIds :
        IF learned[u] = Undefined
        THEN userPreferences[u] = Undefined /\ schedulingHistory[u] = Undefined
        ELSE /\ userPreferences[u] = StoredAfter(u, Val(learned[u]).history).profile
             /\ schedulingHistory[u] = StoredAfter(u, Val(learned[u]).history).history

\* a user's profile was replaced by a different one while another user's
\* profile was held
ProfileReplacedBesideAnother ==
    \E u, v \in UserIds :
        /\ u # v
        /\ learned[u] # Undefined
        /\ Val(learned[u]).replaced
        /\ Len(Val(learned[u]).history) > 0
        /\ learned[v] # Undefined
        /\ Len(Val(learned[v]).history) = 0

\* the agent's latest operation was a request that recommend answered
RequestServed == reqIn.kind \in {"schedule", "reschedule"} /\ recOut.status = "ok"

\* the profile list and the history a request of the user is to be scored
\* with: the user's own, nothing where the agent holds none
OwnPreferences(userId) ==
    IF userPreferences[userId] = Undefined THEN Undefined
    ELSE Some(<<AsPreferences(Val(userPreferences[userId]))>>)

OwnHistory(userId) == schedulingHistory[userId]

\* C18: the recommendations of a user's schedule or reschedule request are
\* those recommend computes from the user's own stored profile and history,
\* the neutral defaults when the user has none
RecommendationsFromOwnData ==
    RequestServed =>
        recOut.value \in recommend(OwnPreferences(reqIn.userId), OwnHistory(reqIn.userId),
                                   recIn.slots, recIn.topN)

====
